---- MODULE Spec2Model ----
(***************************************************************************)
(* FastyTranscript: the identifier extractor, the title resolver, the      *)
(* three retrieval strategies and the fallback orchestrator, with the two  *)
(* front ends that call them (the Raycast command and the CLI).            *)
(*                                                                         *)
(* Strings the code inspects character by character are sequences of       *)
(* one-character strings: URLs, subtitle payloads, command lines. What the  *)
(* code only hands on (titles, pages, messages) is a token.                *)
(***************************************************************************)
EXTENDS Naturals, Integers, Sequences, FiniteSets, TLC

VARIABLES
    xUrl,       \* the string handed to extractVideoId (identifier-extractor runs)
    xOut,       \* what extractVideoId returned for it, NotRun before the call
    xAgain,     \* what extractVideoId returned for xOut, NotRun before that call
    xmlParts,   \* the pieces of the payload handed to parseTranscriptXml, in order
    parsed,     \* what parseTranscriptXml did with it, [st |-> "notrun"] before
    options,    \* parser runs: options.timestamps of the formatSegments call
    transcript, \* parser runs: what formatSegments returned, NotRun before
    subResp,    \* the subtitle content Strategy C received (subtitle-content runs)
    textSegments, \* what lines 285-314 of fetchTranscriptFromYtDlp did with it
    plainText,  \* what vttToPlainText returned for the same content
    tracks,     \* the caption tracks handed to pickTrackUrl (track-selector runs)
    picked,     \* the URLs pickTrackUrl returned, one per call, in order
    execCall,   \* the execSync call of Strategy C under test (subprocess runs)
    ran,        \* the commands /bin/sh ran for it, [st |-> "notrun"] before
    frontend,   \* "raycast" (Command) or "cli" (cli.mjs)
    input,      \* raycast: outcome of Clipboard.readText; cli: process.argv.slice(2)
    videoId,    \* the extracted identifier, Null before extraction or when rejected
    pc,         \* position of the front end / orchestrator
    title,      \* state of the promise returned by fetchVideoTitle
    strat,      \* per strategy: "idle", "running", "failed" or "succeeded"
    started,    \* strategies started so far, in order
    errors,     \* the orchestrator's errors array: <<strategy name, message>> pairs
    thrown,     \* what each strategy threw, as <<strategy, message>>, in order
    net,        \* the request the main flow is blocked on: "none", "pending", "hung"
    page,       \* the watch page held by fetchTranscriptFromPage
    body,       \* the last subtitle payload a strategy received
    segments,   \* the segments returned by the strategy that succeeded
    reqLog,     \* every network request and subprocess issued, in order
    result,     \* what getVideoTranscript returned or threw
    stdout,     \* cli: the console.log calls made
    stderr,     \* cli: the console.error calls made
    exitCode,   \* cli: <<the process exit code>>, NoExit while running
    markdown,   \* raycast: the markdown handed to setMarkdown
    cliSegments, \* what cli.mjs's fetchTranscriptFromYtDlp did with subResp
    info,       \* the metadata yt-dlp printed (subtitle-source runs)
    subSource,  \* the list of encodings chosen from it, [st |-> "notrun"] before
    encodings,  \* a list of encodings of one language (encoding-selector runs)
    trackLib,   \* the track utils.ts chooses from it, [st |-> "notrun"] before
    trackCli,   \* the track cli.mjs chooses from it, [st |-> "notrun"] before
    jsonIn,     \* the string and start index handed to extractJsonObject
    jsonOut,    \* what extractJsonObject returned for them, NotRun before
    startSecs,  \* the start of a segment handed to formatTimestamp
    stamp,      \* what formatTimestamp returned for it, NotRun before
    encoded,    \* the text handed to decodeHtmlEntities (decoder runs)
    decoded     \* what decodeHtmlEntities returned for it, NotRun before

extractVars == <<xUrl, xOut, xAgain>>
parseVars == <<xmlParts, parsed, options, transcript>>
subtitleVars == <<subResp, textSegments, plainText, cliSegments>>
pickVars == <<tracks, picked>>
execVars == <<execCall, ran>>
sourceVars == <<info, subSource>>
trackVars == <<encodings, trackLib, trackCli>>
jsonVars == <<jsonIn, jsonOut>>
stampVars == <<startSecs, stamp>>
decodeVars == <<encoded, decoded>>
unitVars == <<sourceVars, trackVars, jsonVars, stampVars, decodeVars>>
\* The variables of the runs of single functions.
pureVars == <<extractVars, parseVars, subtitleVars, pickVars, execVars, unitVars>>
orchVars == <<frontend, input, videoId, pc, title, strat, started, errors, thrown,
              net, page, body, segments, reqLog, result, stdout, stderr, exitCode,
              markdown>>
vars == <<xUrl, xOut, xAgain, xmlParts, parsed, options, transcript, subResp, textSegments,
          plainText, tracks, picked, execCall, ran, frontend, input, videoId, pc,
          title, strat, started, errors, thrown, net, page, body, segments, reqLog,
          result, stdout, stderr, exitCode, markdown, cliSegments, info, subSource,
          encodings, trackLib, trackCli, jsonIn, jsonOut, startSecs, stamp, encoded,
          decoded>>

Null == "null"
NotRun == "notrun"
NoExit == <<>>

(***************************************************************************)
(* Characters and string helpers                                           *)
(***************************************************************************)
Lower == {"a","b","c","d","e","f","g","h","i","j","k","l","m",
          "n","o","p","q","r","s","t","u","v","w","x","y","z"}
Upper == {"A","B","C","D","E","F","G","H","I","J","K","L","M",
          "N","O","P","Q","R","S","T","U","V","W","X","Y","Z"}
Digit == {"0","1","2","3","4","5","6","7","8","9"}

\* The character class [a-zA-Z0-9_-] of every pattern of extractVideoId.
IdChars == Lower \cup Upper \cup Digit \cup {"_", "-"}

\* s.startsWith(lit, i) with 1-based i.
StartsWithAt(s, i, lit) ==
    /\ i + Len(lit) - 1 <= Len(s)
    /\ SubSeq(s, i, i + Len(lit) - 1) = lit

\* Body(e): e is computed once and Body reads the result under a name, as a
\* `const` of the code is read.
With(e, Body(_)) == CHOOSE v \in {Body(x) : x \in {e}} : TRUE

\* The greedy run [a-zA-Z0-9_-]* of s from index i: the index after its last character.
RECURSIVE RunEnd(_, _)
RunEnd(s, i) == IF i <= Len(s) /\ s[i] \in IdChars THEN RunEnd(s, i + 1) ELSE i

(***************************************************************************)
(* extractVideoId                                                          *)
(***************************************************************************)
\* {11} of the bare-identifier pattern.
IdLen == 11

Https == <<"h","t","t","p","s",":","/","/">>
Http  == <<"h","t","t","p",":","/","/">>
Www   == <<"w","w","w",".">>
YoutuBe == <<"y","o","u","t","u",".","b","e","/">>
Watch   == <<"y","o","u","t","u","b","e",".","c","o","m","/","w","a","t","c","h","?","v","=">>
Embed   == <<"y","o","u","t","u","b","e",".","c","o","m","/","e","m","b","e","d","/">>
Shorts  == <<"y","o","u","t","u","b","e",".","c","o","m","/","s","h","o","r","t","s","/">>

\* The literal parts of the four URL patterns, in the order of the patterns array.
UrlPatterns == <<YoutuBe, Watch, Embed, Shorts>>

\* The ways (?:https?:\/\/)?(?:www\.)? can match, in the order a backtracking
\* matcher tries them: both optional groups are greedy.
OptionalPrefixes == <<Https \o Www, Http \o Www, Https, Http, Www, <<>>>>

\* A match of URL pattern lit that starts at index i of s: the index of the first
\* character of the capture group, 0 when the pattern does not match at i. The
\* group ([a-zA-Z0-9_-]+) needs one character at least.
MatchAt(s, i, lit) ==
    LET hits == {k \in 1..Len(OptionalPrefixes) :
                    LET pre == OptionalPrefixes[k] \o lit
                    IN  /\ StartsWithAt(s, i, pre)
                        /\ RunEnd(s, i + Len(pre)) > i + Len(pre)}
    IN  IF hits = {} THEN 0
        ELSE LET k == CHOOSE h \in hits : \A g \in hits : h <= g
             IN  i + Len(OptionalPrefixes[k] \o lit)

\* url.match(pattern)[1] for an unanchored URL pattern: the leftmost match, its
\* capture taken greedily; Null when there is no match.
UrlMatch(s, lit) ==
    LET at == {i \in 1..Len(s) : MatchAt(s, i, lit) > 0}
    IN  IF at = {} THEN Null
        ELSE LET i == CHOOSE a \in at : \A b \in at : a <= b
                 c == MatchAt(s, i, lit)
             IN  SubSeq(s, c, RunEnd(s, c) - 1)

\* The bare pattern with + in place of {11}.
BareMatchAnyLength(s) ==
    IF Len(s) >= 1 /\ \A i \in 1..Len(s) : s[i] \in IdChars THEN s ELSE Null

\* url.match(/^([a-zA-Z0-9_-]{11})$/)[1]
BareMatch(s) ==
    IF Len(s) = IdLen /\ \A i \in 1..Len(s) : s[i] \in IdChars THEN s ELSE Null

\* The for loop over patterns: the first pattern that matches decides.
RECURSIVE FirstUrlMatch(_, _)
FirstUrlMatch(s, k) ==
    IF k > Len(UrlPatterns) THEN BareMatch(s)
    ELSE IF UrlMatch(s, UrlPatterns[k]) # Null THEN UrlMatch(s, UrlPatterns[k])
    ELSE FirstUrlMatch(s, k + 1)

extractVideoId(url) == FirstUrlMatch(url, 1)

(***************************************************************************)
(* Strings handed to extractVideoId                                        *)
(***************************************************************************)
\* Longest run of identifier characters put behind a URL prefix or given bare.
MaxIdLen == 13

\* Identifier material: every prefix of these is used as an identifier candidate.
IdBases == {
    <<"d","Q","w","4","w","9","W","g","X","c","Q","a","b","c","d","e">>,
    <<"-","b","c","_","D","E","F","-","1","2","3","_","9","Z","y","x">> }

IdCandidates == {SubSeq(b, 1, n) : b \in IdBases, n \in 0..MaxIdLen}

Schemes == {Https, Http, <<>>}
WwwOpts == {Www, <<>>}
\* Text in front of the URL (clipboard text is free-form).
Leads == {<<>>, <<"s","e","e"," ">>}
\* What follows the identifier: nothing, a further query parameter, a share tag.
Suffixes == {<<>>, <<"&","t","=","1","s">>, <<"?","s","i","=","a","b">>}

ShapeUrl(lead, sch, w, lit, id, suf) == lead \o sch \o w \o lit \o id \o suf

UrlInputs ==
    {ShapeUrl(lead, sch, w, UrlPatterns[k], id, suf) :
        lead \in Leads, sch \in Schemes, w \in WwwOpts,
        k \in 1..Len(UrlPatterns), id \in IdCandidates, suf \in Suffixes}

PlainInputs ==
    IdCandidates \cup
    { <<"n","o","t"," ","a"," ","u","r","l"," ","a","t"," ","a","l","l">>,
      <<"h","e","l","l","o"," ","w","o","r","l","d">>,
      <<"s","h","o","r","t">>,
      <<"w","a","y","t","o","o","l","o","n","g","t","o","b","e","a","v","a","l","i","d","i","d">> }

ExtractInputs == UrlInputs \cup PlainInputs

(***************************************************************************)
(* String primitives of the parsers                                        *)
(***************************************************************************)
\* \s of the patterns, and what String.prototype.trim removes: the ASCII white
\* space and the white space beyond it, written as fromCharCode writes it.
WhiteSpace ==
    {" ", "\t", "\n", "\r", "U+11", "U+12", "U+160", "U+5760", "U+8232", "U+8233", "U+8239",
     "U+8287", "U+12288", "U+65279"} \cup {"U+" \o ToString(c) : c \in 8192..8202}

\* A greedy run [set]* of s from index i: the index after its last character.
SkipWhile(s, i, set) ==
    IF i > Len(s) THEN i
    ELSE CHOOSE e \in i..(Len(s) + 1) :
             /\ \A j \in i..(e - 1) : s[j] \in set
             /\ e > Len(s) \/ s[e] \notin set

\* A greedy run [^set]* of s from index i: the index after its last character.
SkipUntil(s, i, set) ==
    IF i > Len(s) THEN i
    ELSE CHOOSE e \in i..(Len(s) + 1) :
             /\ \A j \in i..(e - 1) : s[j] \notin set
             /\ e > Len(s) \/ s[e] \in set

\* s.indexOf(lit, i) with 1-based indices; 0 when lit does not occur from i on.
IndexOf(s, lit, i) ==
    LET at == {k \in i..(Len(s) - Len(lit) + 1) : StartsWithAt(s, k, lit)}
    IN  IF at = {} THEN 0 ELSE CHOOSE k \in at : \A j \in at : k <= j

includes(s, lit) == IndexOf(s, lit, 1) > 0

\* The index of the last character of s[1..j] that trim keeps; 0 for none.
TrimEnd(s, j) ==
    LET kept == {k \in 1..j : s[k] \notin WhiteSpace}
    IN  IF kept = {} THEN 0 ELSE CHOOSE k \in kept : \A n \in kept : n <= k

\* s.trim()
trim(s) ==
    LET a == SkipWhile(s, 1, WhiteSpace)
    IN  IF a > Len(s) THEN <<>> ELSE SubSeq(s, a, TrimEnd(s, Len(s)))

\* s.replace(/lit/g, rep) for a literal pattern, from index i on.
RECURSIVE ReplaceAll(_, _, _, _)
ReplaceAll(s, i, lit, rep) ==
    With(IndexOf(s, lit, i), LAMBDA c :
        IF c = 0 THEN SubSeq(s, i, Len(s))
        ELSE SubSeq(s, i, c - 1) \o rep \o ReplaceAll(s, c + Len(lit), lit, rep))

\* parts.join(sep)
RECURSIVE join(_, _)
join(parts, sep) ==
    IF parts = <<>> THEN <<>>
    ELSE IF Len(parts) = 1 THEN parts[1]
    ELSE parts[1] \o sep \o join(Tail(parts), sep)

\* s.split(sep) for a one-character separator, from index i on.
RECURSIVE split(_, _, _)
split(s, i, sep) ==
    With(SkipUntil(s, i, {sep}), LAMBDA e :
        IF e > Len(s) THEN <<SubSeq(s, i, Len(s))>>
        ELSE <<SubSeq(s, i, e - 1)>> \o split(s, e + 1, sep))

(***************************************************************************)
(* Numbers                                                                 *)
(***************************************************************************)
\* A JavaScript number that can have a fraction is held as a whole number of
\* thousandths: FixedOne is the number 1.
FixedOne == 1000
FromInt(n) == n * FixedOne

NaN == <<>>
\* `x || 0` for a number x
OrZero(x) == IF x = NaN THEN 0 ELSE x[1]

Digits10 == <<"0","1","2","3","4","5","6","7","8","9">>
DigitVal(c) == (CHOOSE k \in 1..10 : Digits10[k] = c) - 1

RECURSIVE ToNat(_)
ToNat(ds) == IF ds = <<>> THEN 0 ELSE ToNat(SubSeq(ds, 1, Len(ds) - 1)) * 10 + DigitVal(ds[Len(ds)])

\* String(n) for a whole number n
RECURSIVE NatString(_)
NatString(n) == IF n < 10 THEN <<Digits10[n + 1]>> ELSE NatString(n \div 10) \o <<Digits10[(n % 10) + 1]>>
String(n) == IF n < 0 THEN <<"-">> \o NatString(-n) ELSE NatString(n)

\* parseInt(s) of a decimal string (no 0x prefix): leading white space, a sign,
\* decimal digits; NaN without a digit.
\* An argument that is undefined is <<>> here, a string s is <<s>>.
parseInt(arg) ==
    IF arg = <<>> THEN NaN
    ELSE With(SkipWhile(arg[1], 1, WhiteSpace), LAMBDA a :
         LET s == arg[1]
             signed == a <= Len(s) /\ s[a] \in {"+", "-"}
             b == IF signed THEN a + 1 ELSE a
         IN  With(SkipWhile(s, b, Digit), LAMBDA e :
             With(ToNat(SubSeq(s, b, e - 1)), LAMBDA n :
                 IF e = b THEN NaN
                 ELSE IF signed /\ s[a] = "-" THEN <<0 - n>> ELSE <<n>>)))

\* parseFloat(s) of a plain decimal string (no exponent, no Infinity): leading
\* white space, a sign, digits with an optional fraction;
\* NaN without a digit. The value in thousandths, further digits dropped.
parseFloat(arg) ==
    IF arg = <<>> THEN NaN
    ELSE With(SkipWhile(arg[1], 1, WhiteSpace), LAMBDA a :
         LET s == arg[1]
             signed == a <= Len(s) /\ s[a] \in {"+", "-"}
             b == IF signed THEN a + 1 ELSE a
         IN  With(SkipWhile(s, b, Digit), LAMBDA e :
             With(IF e <= Len(s) /\ s[e] = "." THEN SkipWhile(s, e + 1, Digit) ELSE e,
                  LAMBDA f :
             With(SubSeq(s, b, e - 1), LAMBDA whole :
             With(IF f > e THEN SubSeq(s, e + 1, f - 1) ELSE <<>>, LAMBDA frac :
             With(FromInt(ToNat(whole)) + ToNat(SubSeq(frac \o <<"0","0","0">>, 1, 3)),
                  LAMBDA n :
                 IF whole = <<>> /\ frac = <<>> THEN NaN
                 ELSE IF signed /\ s[a] = "-" THEN <<0 - n>> ELSE <<n>>))))))

(***************************************************************************)
(* decodeHtmlEntities                                                      *)
(***************************************************************************)
\* The grave accent (code 96), written as fromCharCode writes the characters
\* that have no literal here.
BackQuote == "U+96"

\* The printable ASCII characters, from code 32 on.
Ascii == <<" ","!","\"","#","$","%","&","'","(",")","*","+",",","-",".","/","0","1","2","3",
    "4","5","6","7","8","9",":",";","<","=",">","?","@","A","B","C","D","E","F","G","H","I",
    "J","K","L","M","N","O","P","Q","R","S","T","U","V","W","X","Y","Z","[","\\","]","^","_",
    BackQuote>> \o
    <<"a","b","c","d","e","f","g","h","i","j","k","l","m","n","o","p","q","r","s","t","u","v",
        "w","x","y","z","{","|","}","~">>

\* String.fromCharCode(n)
fromCharCode(n) ==
    LET c == n % 65536
    IN  IF c >= 32 /\ c <= 126 THEN Ascii[c - 31]
        ELSE IF c = 9 THEN "\t" ELSE IF c = 10 THEN "\n" ELSE IF c = 13 THEN "\r"
        ELSE "U+" \o ToString(c)

\* .replace(/&#(\d+);/g, (_, num) => String.fromCharCode(parseInt(num)))
RECURSIVE DecodeNumericRefs(_, _)
DecodeNumericRefs(s, i) ==
    With(IndexOf(s, <<"&", "#">>, i), LAMBDA c :
        IF c = 0 THEN SubSeq(s, i, Len(s))
        ELSE
    With(SkipWhile(s, c + 2, Digit), LAMBDA e :
        IF e > c + 2 /\ e <= Len(s) /\ s[e] = ";"
        THEN SubSeq(s, i, c - 1) \o <<fromCharCode(ToNat(SubSeq(s, c + 2, e - 1)))>>
                 \o DecodeNumericRefs(s, e + 1)
        ELSE SubSeq(s, i, c) \o DecodeNumericRefs(s, c + 1)))

\* .replace(/\s+/g, " ")
RECURSIVE CollapseWhiteSpace(_, _)
CollapseWhiteSpace(s, i) ==
    With(SkipUntil(s, i, WhiteSpace), LAMBDA c :
        IF c > Len(s) THEN SubSeq(s, i, Len(s))
        ELSE SubSeq(s, i, c - 1) \o <<" ">>
                 \o CollapseWhiteSpace(s, SkipWhile(s, c, WhiteSpace)))

\* The named entities, in the order of the replace calls.
NamedEntities ==
    << << <<"&","#","3","9",";">>, <<"'">> >>, << <<"&","q","u","o","t",";">>, <<"\"">> >>, << <<"&",
        "a","m","p",";">>, <<"&">> >>,
       << <<"&","l","t",";">>, <<"<">> >>, << <<"&","g","t",";">>, <<">">> >>, << <<"&","n","b",
           "s","p",";">>, <<" ">> >> >>

RECURSIVE ReplaceNamed(_, _)
ReplaceNamed(s, k) ==
    IF k > Len(NamedEntities) THEN s
    ELSE ReplaceNamed(ReplaceAll(s, 1, NamedEntities[k][1], NamedEntities[k][2]), k + 1)

decodeHtmlEntities(text) ==
    CollapseWhiteSpace(DecodeNumericRefs(ReplaceNamed(text, 1), 1), 1)

(***************************************************************************)
(* parseTranscriptXml                                                      *)
(***************************************************************************)
\* The literal parts of the three patterns, and whether the content is matched
\* lazily ([\s\S]*?) or as a run without "<" ([^<]*).
\* srv1Re = /<text\s+start="([^"]*)"(?:\s+dur="([^"]*)")?[^>]*>([^<]*)<\/text>/g
srv1Re ==
    [open |-> <<"<","t","e","x","t">>, attr1 |-> <<"s","t","a","r","t","=","\"">>,
     attr2 |-> <<"d","u","r","=","\"">>, close |-> <<"<","/","t","e","x","t",">">>,
     lazy |-> FALSE]
\* pRe = /<p\s+t="([^"]*)"(?:\s+d="([^"]*)")?[^>]*>([\s\S]*?)<\/p>/g
pRe ==
    [open |-> <<"<","p">>, attr1 |-> <<"t","=","\"">>, attr2 |-> <<"d","=","\"">>,
     close |-> <<"<","/","p",">">>, lazy |-> TRUE]
\* sRe = /<s[^>]*>([^<]*)<\/s>/g
sRe == [open |-> <<"<","s">>, close |-> <<"<","/","s",">">>, lazy |-> FALSE]

NoMatch == [end |-> 0, g1 |-> <<>>, g2 |-> <<>>, g3 |-> <<>>]

\* open\s+attr([^"]*)" matched at index i of s: the index after the closing
\* quote and the captured value; end 0 when it does not match there.
AttrMatch(s, i, open, attr) ==
    With(SkipWhile(s, i + Len(open), WhiteSpace), LAMBDA a :
    With(SkipUntil(s, a + Len(attr), {"\""}), LAMBDA q :
        IF /\ StartsWithAt(s, i, open) /\ a > i + Len(open)
           /\ StartsWithAt(s, a, attr) /\ q <= Len(s)
        THEN [end |-> q + 1, val |-> SubSeq(s, a + Len(attr), q - 1)]
        ELSE [end |-> 0, val |-> <<>>]))

\* [^>]*> from index j: the index after the first ">", 0 when there is none.
TagEnd(s, j) == With(SkipUntil(s, j, {">"}), LAMBDA g : IF g <= Len(s) THEN g + 1 ELSE 0)

\* ([^<]*) and the closing tag, accepting the end of the input as a closing tag.
CloseAfterTextOrEnd(s, k, close) ==
    With(SkipUntil(s, k, {"<"}), LAMBDA e :
        IF StartsWithAt(s, e, close) \/ e > Len(s)
        THEN [end |-> e + Len(close), inner |-> SubSeq(s, k, e - 1)]
        ELSE [end |-> 0, inner |-> <<>>])

\* ([^<]*)<\/text> and ([^<]*)<\/s> from index k: the text runs to the next "<",
\* which must open the closing tag.
CloseAfterText(s, k, close) ==
    With(SkipUntil(s, k, {"<"}), LAMBDA e :
        IF StartsWithAt(s, e, close)
        THEN [end |-> e + Len(close), inner |-> SubSeq(s, k, e - 1)]
        ELSE [end |-> 0, inner |-> <<>>])

\* ([\s\S]*?)<\/p> from index k: the content runs to the first closing tag.
CloseLazy(s, k, close) ==
    With(IndexOf(s, close, k), LAMBDA e :
        IF e > 0
        THEN [end |-> e + Len(close), inner |-> SubSeq(s, k, e - 1)]
        ELSE [end |-> 0, inner |-> <<>>])

\* [^>]*> and the content with its closing tag, from index j.
ElementBody(s, j, re) ==
    With(TagEnd(s, j), LAMBDA g :
        IF g = 0 THEN [end |-> 0, inner |-> <<>>]
        ELSE IF re.lazy THEN CloseLazy(s, g, re.close)
        ELSE CloseAfterText(s, g, re.close))

\* One match of srv1Re or pRe at index i. The optional attribute group is taken
\* when the rest of the pattern matches behind it, and given up otherwise. g2 is
\* <<>> when the group did not take part, <<its value>> when it did.
ElementMatch(s, i, re) ==
    With(AttrMatch(s, i, re.open, re.attr1), LAMBDA h :
        IF h.end = 0 THEN NoMatch
        ELSE
    With(AttrMatch(s, h.end, <<>>, re.attr2), LAMBDA o :
    With(IF o.end > 0 THEN ElementBody(s, o.end, re) ELSE [end |-> 0, inner |-> <<>>],
         LAMBDA taken :
    With(ElementBody(s, h.end, re), LAMBDA skipped :
        IF taken.end > 0
        THEN [end |-> taken.end, g1 |-> h.val, g2 |-> <<o.val>>, g3 |-> taken.inner]
        ELSE IF skipped.end > 0
        THEN [end |-> skipped.end, g1 |-> h.val, g2 |-> <<>>, g3 |-> skipped.inner]
        ELSE NoMatch))))

\* The matches srv1Re.exec finds in turn, from lastIndex i.
RECURSIVE Srv1Exec(_, _)
Srv1Exec(s, i) ==
    With(IndexOf(s, srv1Re.open, i), LAMBDA c :
        IF c = 0 THEN <<>>
        ELSE
    With(ElementMatch(s, c, srv1Re), LAMBDA m :
        IF m.end > 0 THEN <<m>> \o Srv1Exec(s, m.end) ELSE Srv1Exec(s, c + 1)))

\* The matches pRe.exec finds in turn, from lastIndex i.
RECURSIVE PExec(_, _)
PExec(s, i) ==
    With(IndexOf(s, pRe.open, i), LAMBDA c :
        IF c = 0 THEN <<>>
        ELSE
    With(ElementMatch(s, c, pRe), LAMBDA m :
        IF m.end > 0 THEN <<m>> \o PExec(s, m.end) ELSE PExec(s, c + 1)))

\* The first capture of each match of sRe = /<s[^>]*>([^<]*)<\/s>/g, from index i.
RECURSIVE SExec(_, _)
SExec(s, i) ==
    With(IndexOf(s, sRe.open, i), LAMBDA c :
        IF c = 0 THEN <<>>
        ELSE
    With(ElementBody(s, c + Len(sRe.open), sRe), LAMBDA m :
        IF m.end > 0 THEN <<m.inner>> \o SExec(s, m.end) ELSE SExec(s, c + 1)))

\* s.replace(/<[^>]+>/g, "") from index i on.
RECURSIVE StripTags(_, _)
StripTags(s, i) ==
    With(IndexOf(s, <<"<">>, i), LAMBDA c :
        IF c = 0 THEN SubSeq(s, i, Len(s))
        ELSE
    With(SkipUntil(s, c + 1, {">"}), LAMBDA g :
        IF g > c + 1 /\ g <= Len(s) THEN SubSeq(s, i, c - 1) \o StripTags(s, g + 1)
        ELSE SubSeq(s, i, c) \o StripTags(s, c + 1)))

\* The first loop with the text of each segment decoded as it is pushed.
Srv1SegmentsDecoded(xml) ==
    With(SelectSeq(Srv1Exec(xml, 1), LAMBDA m : trim(m.g3) # <<>>), LAMBDA kept :
        [k \in 1..Len(kept) |->
            [text |-> decodeHtmlEntities(kept[k].g3),
             start |-> OrZero(parseFloat(<<kept[k].g1>>)),
             duration |-> OrZero(parseFloat(kept[k].g2))]])

\* The first loop: one segment per match with non-blank text.
Srv1Segments(xml) ==
    With(SelectSeq(Srv1Exec(xml, 1), LAMBDA m : trim(m.g3) # <<>>), LAMBDA kept :
        [k \in 1..Len(kept) |->
            [text |-> kept[k].g3,
             start |-> OrZero(parseFloat(<<kept[k].g1>>)),
             duration |-> OrZero(parseFloat(kept[k].g2))]])

\* The words of a paragraph joined with a separator.
PTextSpaced(inner) ==
    With(SelectSeq(SExec(inner, 1), LAMBDA w : w # <<>>), LAMBDA words :
        IF Len(words) > 0 THEN join(words, <<" ">>) ELSE trim(StripTags(inner, 1)))

\* The text of one paragraph: its words, or its content without tags.
PText(inner) ==
    With(SelectSeq(SExec(inner, 1), LAMBDA w : w # <<>>), LAMBDA words :
        IF Len(words) > 0 THEN join(words, <<>>) ELSE trim(StripTags(inner, 1)))

\* `/ 1000` of the paragraph timing
MsPerSecond == 1000

\* The second loop: one segment per paragraph with text.
Srv3Segments(xml) ==
    With(SelectSeq(PExec(xml, 1), LAMBDA m : PText(m.g3) # <<>>), LAMBDA kept :
        [k \in 1..Len(kept) |->
            [text |-> PText(kept[k].g3),
             start |-> FromInt(OrZero(parseInt(<<kept[k].g1>>))) \div MsPerSecond,
             duration |-> FromInt(OrZero(parseInt(kept[k].g2))) \div MsPerSecond]])

\* Both dialects tried and the results concatenated.
parseTranscriptXmlBoth(xml) == Srv1Segments(xml) \o Srv3Segments(xml)

parseTranscriptXml(xml) ==
    With(Srv1Segments(xml), LAMBDA srv1Segments :
        IF Len(srv1Segments) > 0 THEN srv1Segments ELSE Srv3Segments(xml))

(***************************************************************************)
(* The plain-subtitle path of fetchTranscriptFromYtDlp, and vttToPlainText *)
(***************************************************************************)
Webvtt == <<"W","E","B","V","T","T">>
\* The prefixes of the header lines.
Prefixes ==
    [kind |-> <<"K","i","n","d",":">>, language |-> <<"L","a","n","g","u","a","g","e",":">>,
     note |-> <<"N","O","T","E">>]
Arrow == <<"-","-",">">>

\* /^\d+$/.test(s)
AllDigits(s) == s # <<>> /\ \A i \in 1..Len(s) : s[i] \in Digit

\* The condition under which the loop of the plain-subtitle path skips a line.
VttSkips(trimmed) ==
    \/ trimmed = <<>>
    \/ trimmed = Webvtt
    \/ StartsWithAt(trimmed, 1, Prefixes.kind)
    \/ StartsWithAt(trimmed, 1, Prefixes.language)
    \/ StartsWithAt(trimmed, 1, Prefixes.note)
    \/ AllDigits(trimmed)
    \/ includes(trimmed, Arrow)

\* A repeat is recognized only when it follows its original directly.
SeenLast(textSegments_, cleaned) ==
    textSegments_ # <<>> /\ textSegments_[Len(textSegments_)].text = cleaned

\* textSegments.some((s) => s.text === cleaned)
Seen(textSegments_, cleaned) ==
    \E i \in 1..Len(textSegments_) : textSegments_[i].text = cleaned

\* The loop over the lines, from line k on, with the segments collected so far.
RECURSIVE VttLoop(_, _, _)
VttLoop(lines, k, acc) ==
    IF k > Len(lines) THEN acc
    ELSE With(trim(lines[k]), LAMBDA trimmed :
         With(trim(StripTags(trimmed, 1)), LAMBDA cleaned :
             IF VttSkips(trimmed) THEN VttLoop(lines, k + 1, acc)
             ELSE IF cleaned # <<>> /\ ~Seen(acc, cleaned)
             THEN VttLoop(lines, k + 1,
                          Append(acc, [text |-> cleaned, start |-> 0, duration |-> 0]))
             ELSE VttLoop(lines, k + 1, acc)))

\* `if (subResp.includes("WEBVTT")) { ... }`: the segments of the plain-subtitle
\* path, <<>> when the content is not taken for that format.
WebVttSegments(content) ==
    IF includes(content, Webvtt) THEN VttLoop(split(content, 1, "\n"), 1, <<>>) ELSE <<>>

\* `!subResp || subResp.trim().length === 0`
EmptyContent(content) == Len(trim(content)) = 0

\* What Strategy C makes of the fetched subtitle content: XML first, and in
\* utils.ts the WEBVTT lines after that; cli.mjs has no WEBVTT path. <<>> stands
\* for the throw at the end of the function.
YtDlpSegments(fe, content) ==
    With(parseTranscriptXml(content), LAMBDA segments_ :
        IF Len(segments_) > 0 THEN segments_
        ELSE IF fe # "cli" THEN WebVttSegments(content)
        ELSE <<>>)

\* decodeHtmlEntities of lib/parsers
LibEntities ==
    << << <<"&","a","m","p",";">>, <<"&">> >>, << <<"&","l","t",";">>, <<"<">> >>, << <<"&","g",
        "t",";">>, <<">">> >>,
       << <<"&","#","3","9",";">>, <<"'">> >>, << <<"&","q","u","o","t",";">>, <<"\"">> >> >>

RECURSIVE LibReplace(_, _)
LibReplace(s, k) ==
    IF k > Len(LibEntities) THEN s
    ELSE LibReplace(ReplaceAll(s, 1, LibEntities[k][1], LibEntities[k][2]), k + 1)

libDecodeHtmlEntities(text) == LibReplace(text, 1)

\* The loop of vttToPlainText, from line k on, with the lines kept so far.
RECURSIVE PlainLoop(_, _, _)
PlainLoop(lines, k, textLines) ==
    IF k > Len(lines) THEN textLines
    ELSE With(lines[k], LAMBDA line :
         With(trim(libDecodeHtmlEntities(StripTags(line, 1))), LAMBDA clean :
             IF \/ StartsWithAt(line, 1, Webvtt)
                \/ StartsWithAt(line, 1, Prefixes.kind)
                \/ StartsWithAt(line, 1, Prefixes.language)
                \/ includes(line, Arrow)
                \/ trim(line) = <<>>
             THEN PlainLoop(lines, k + 1, textLines)
             ELSE IF clean # <<>> /\ \A i \in 1..Len(textLines) : textLines[i] # clean
             THEN PlainLoop(lines, k + 1, Append(textLines, clean))
             ELSE PlainLoop(lines, k + 1, textLines)))

vttToPlainText(vttContent) ==
    trim(CollapseWhiteSpace(join(PlainLoop(split(vttContent, 1, "\n"), 1, <<>>), <<" ">>), 1))

(***************************************************************************)
(* pickTrackUrl                                                            *)
(***************************************************************************)
En == <<"e","n">>

\* The predicate with the exact comparison alone.
IsEnglishExact(t) == t.languageCode = En

\* t.languageCode === "en" || t.languageCode.startsWith("en")
IsEnglish(t) == t.languageCode = En \/ StartsWithAt(t.languageCode, 1, En)

\* tracks.find(pred): the index of the first track that satisfies it, 0 for none.
RECURSIVE FindEnglish(_, _)
FindEnglish(tracks_, k) ==
    IF k > Len(tracks_) THEN 0
    ELSE IF IsEnglish(tracks_[k]) THEN k
    ELSE FindEnglish(tracks_, k + 1)

\* (en || tracks[0]).baseUrl, for a list with one track at least.
pickTrackUrl(tracks_) ==
    IF FindEnglish(tracks_, 1) > 0 THEN tracks_[FindEnglish(tracks_, 1)].baseUrl
    ELSE tracks_[1].baseUrl

(***************************************************************************)
(* formatTimestamp, joinSegmentsWithTimestamps, joinSegments               *)
(***************************************************************************)
\* `/ 60` and `% 60`
SecondsPerMinute == 60

\* Math.floor(x) of a number held in thousandths, as a whole number.
Floor(x) == x \div FixedOne

\* a % b of JavaScript for b > 0: the remainder has the sign of a.
Remainder(a, b) == IF a >= 0 THEN a % b ELSE 0 - ((0 - a) % b)

\* str.padStart(2, "0")
padStart2(str) == IF Len(str) < 2 THEN <<"0">> \o str ELSE str

formatTimestamp(seconds) ==
    LET mins == Floor(seconds \div SecondsPerMinute)
        secs == Floor(Remainder(seconds, FromInt(SecondsPerMinute)))
    IN  padStart2(String(mins)) \o <<":">> \o padStart2(String(secs))

\* The texts decoded one by one and joined by a space, nothing else.
joinSegmentsDecodedEach(segs) ==
    join([k \in 1..Len(segs) |-> decodeHtmlEntities(segs[k].text)], <<" ">>)

\* decodeHtmlEntities(segments.map((s) => s.text).join(" ")).trim()
joinSegments(segs) ==
    trim(decodeHtmlEntities(join([k \in 1..Len(segs) |-> segs[k].text], <<" ">>)))

\* segments.map((s) => `[${formatTimestamp(s.start)}] ${...trim()}`).join("\n")
joinSegmentsWithTimestamps(segs) ==
    join([k \in 1..Len(segs) |->
            <<"[">> \o formatTimestamp(segs[k].start) \o <<"]", " ">>
                \o trim(decodeHtmlEntities(segs[k].text))],
         <<"\n">>)

\* formatSegments(segments, options), with options.timestamps as its second argument
formatSegments(segs, timestamps) ==
    IF timestamps THEN joinSegmentsWithTimestamps(segs) ELSE joinSegments(segs)

(***************************************************************************)
(* The command lines of Strategy C and what /bin/sh makes of them          *)
(***************************************************************************)
\* `yt-dlp --skip-download --dump-json -- "https://www.youtube.com/watch?v=${videoId}" 2>/dev/null`
WatchUrlOf(id) == <<"h","t","t","p","s",":","/","/","w","w","w",".","y","o","u","t","u","b",
    "e",".","c","o","m","/","w","a","t","c","h","?","v","=">> \o id
YtDlpCommand(id) ==
    <<"y","t","-","d","l","p"," ","-","-","s","k","i","p","-","d","o","w","n","l","o","a","d",
        " ","-","-","d","u","m","p","-","j","s","o","n"," ","-","-"," ","\"">> \o WatchUrlOf(id) \o <<"\"",
        " ","2",">","/","d","e","v","/","n","u","l","l">>

\* `curl -sL -- "${track.url}"`
CurlCommand(url) == <<"c","u","r","l"," ","-","s","L"," ","-","-"," ","\"">> \o url \o <<"\"">>

\* execSync(command) hands the string to /bin/sh -c. The shell's reading of it,
\* for command strings without single quotes, comments and globbing characters
\* outside quotes.
ShBlank == {" ", "\t"}
ShSeparators == {";", "&", "|", "\n"}
NameChars == Lower \cup Upper \cup Digit \cup {"_"}
\* The characters the shell may read as more than themselves.
ShSpecial == ShBlank \cup ShSeparators \cup {BackQuote, "$", "\"", "\\", ">"}
\* What makes "$" the start of an expansion.
ExpansionStart == NameChars \cup {"@", "*", "#", "?", "-", "$", "!", "{", "("}

ShStart ==
    [mode |-> "plain", word |-> <<>>, inWord |-> FALSE, redirect |-> FALSE,
     argv |-> <<>>, commands |-> <<>>, substituted |-> <<>>, expanded |-> FALSE,
     error |-> FALSE]

\* A word ends: it becomes an argument, or the target of a pending redirection.
EndWord(st) ==
    IF ~st.inWord THEN st
    ELSE IF st.redirect
    THEN [st EXCEPT !.word = <<>>, !.inWord = FALSE, !.redirect = FALSE]
    ELSE [st EXCEPT !.argv = Append(st.argv, st.word), !.word = <<>>, !.inWord = FALSE]

\* A command ends at a separator: a separator with no command before it is a
\* syntax error.
EndCommand(st) ==
    LET w == EndWord(st)
    IN  IF w.argv = <<>> THEN [w EXCEPT !.error = TRUE]
        ELSE [w EXCEPT !.commands = Append(w.commands, w.argv), !.argv = <<>>]

\* The end of the command string.
EndInput(st) ==
    LET w == EndWord(st)
    IN  IF st.mode # "plain" THEN [st EXCEPT !.error = TRUE]
        ELSE IF w.argv = <<>> THEN w
        ELSE [w EXCEPT !.commands = Append(w.commands, w.argv), !.argv = <<>>]

AddChar(st, c) == [st EXCEPT !.word = Append(st.word, c), !.inWord = TRUE]

\* The index after the parameter or command that follows "$" at index j.
ExpansionEnd(s, j) ==
    IF s[j] = "{" THEN IndexOf(s, <<"}">>, j) + 1
    ELSE IF s[j] = "(" THEN IndexOf(s, <<")">>, j) + 1
    ELSE IF s[j] \in Lower \cup Upper \cup {"_"} THEN SkipWhile(s, j, NameChars)
    ELSE j + 1

RECURSIVE Sh(_, _, _)
Sh(s, i, st) ==
    IF st.error THEN st
    ELSE IF i > Len(s) THEN EndInput(st)
    ELSE IF s[i] = BackQuote
    THEN \* command substitution, in and outside double quotes
         IF IndexOf(s, <<BackQuote>>, i + 1) = 0 THEN [st EXCEPT !.error = TRUE]
         ELSE Sh(s, IndexOf(s, <<BackQuote>>, i + 1) + 1,
                 [st EXCEPT !.substituted =
                                Append(st.substituted,
                                       SubSeq(s, i + 1, IndexOf(s, <<BackQuote>>, i + 1) - 1)),
                            !.expanded = TRUE, !.inWord = TRUE])
    ELSE IF s[i] = "$" /\ i < Len(s) /\ s[i + 1] \in ExpansionStart
    THEN \* parameter expansion or $( ), in and outside double quotes
         IF ExpansionEnd(s, i + 1) = 1 THEN [st EXCEPT !.error = TRUE]
         ELSE Sh(s, ExpansionEnd(s, i + 1),
                 [st EXCEPT !.expanded = TRUE, !.inWord = TRUE,
                            !.substituted =
                                IF s[i + 1] = "("
                                THEN Append(st.substituted,
                                            SubSeq(s, i + 2, ExpansionEnd(s, i + 1) - 2))
                                ELSE st.substituted])
    ELSE IF s[i] \notin ShSpecial
    THEN \* a run of characters that stand for themselves in both modes
         Sh(s, SkipUntil(s, i, ShSpecial),
            [st EXCEPT !.word = st.word \o SubSeq(s, i, SkipUntil(s, i, ShSpecial) - 1),
                       !.inWord = TRUE])
    ELSE IF st.mode = "dq"
    THEN IF s[i] = "\"" THEN Sh(s, i + 1, [st EXCEPT !.mode = "plain"])
         ELSE IF s[i] = "\\" /\ i < Len(s) /\ s[i + 1] \in {"$", BackQuote, "\"", "\\"}
         THEN Sh(s, i + 2, AddChar(st, s[i + 1]))
         ELSE Sh(s, i + 1, AddChar(st, s[i]))
    ELSE IF s[i] \in ShBlank THEN Sh(s, i + 1, EndWord(st))
    ELSE IF s[i] \in ShSeparators THEN Sh(s, i + 1, EndCommand(st))
    ELSE IF s[i] = "\"" THEN Sh(s, i + 1, [st EXCEPT !.mode = "dq", !.inWord = TRUE])
    ELSE IF s[i] = ">"
    THEN \* a redirection; digits directly before it are its descriptor number
         IF AllDigits(st.word)
         THEN Sh(s, i + 1, [st EXCEPT !.word = <<>>, !.inWord = FALSE, !.redirect = TRUE])
         ELSE Sh(s, i + 1, [EndWord(st) EXCEPT !.redirect = TRUE])
    ELSE IF s[i] = "\\" /\ i < Len(s) THEN Sh(s, i + 2, AddChar(st, s[i + 1]))
    ELSE Sh(s, i + 1, AddChar(st, s[i]))

\* What execSync(command) makes run.
execSync(command) == Sh(command, 1, ShStart)

\* An identifier, and eleven identifier characters that start like a flag.
ValidId == <<"d","Q","w","4","w","9","W","g","X","c","Q">>
DashId == <<"-","-","a","b","c","d","e","f","g","h","i">>

\* The payload of the end-to-end scenarios.
HelloWorldXml ==
    <<"<","t","r","a","n","s","c","r","i","p","t",">","<","t","e","x","t"," ","s","t","a","r",
        "t","=","\"","0","\""," ","d","u","r","=","\"","2","\"",">","H","e","l","l","o","<",
        "/","t","e","x","t",">","<","t","e","x","t"," ","s","t","a","r","t","=","\"","2","\"",
        " ","d","u","r","=","\"","2","\"",">","W","o","r","l","d","<","/","t","e","x","t",">",
        "<","/","t","r","a","n","s","c","r","i","p","t",">">>

(***************************************************************************)
(* Runs of single functions: what is not running stays parked              *)
(***************************************************************************)
NotRunYet == [st |-> "notrun"]

ExtractParked == xUrl = <<>> /\ xOut = NotRun /\ xAgain = NotRun
ParseParked ==
    /\ xmlParts = <<>> /\ parsed = NotRunYet
    /\ options = [timestamps |-> FALSE] /\ transcript = NotRun
SubtitleParked ==
    /\ subResp = <<>> /\ textSegments = NotRunYet /\ plainText = NotRun
    /\ cliSegments = NotRunYet
PickParked == tracks = <<>> /\ picked = <<>>
ExecParked == execCall = [kind |-> "none"] /\ ran = NotRunYet
SourceParked == info = <<>> /\ subSource = NotRunYet
TrackParked == encodings = <<>> /\ trackLib = NotRunYet /\ trackCli = NotRunYet
JsonParked == jsonIn = <<>> /\ jsonOut = NotRun
StampParked == startSecs = 0 /\ stamp = NotRun
DecodeParked == encoded = <<>> /\ decoded = NotRun
UnitParked ==
    SourceParked /\ TrackParked /\ JsonParked /\ StampParked /\ DecodeParked

\* The orchestrator is not running.
OrchParked ==
    /\ frontend = "none" /\ input = <<>> /\ videoId = Null /\ pc = "parked"
    /\ title = [st |-> "none"] /\ strat = <<>> /\ started = <<>> /\ errors = <<>>
    /\ thrown = <<>> /\ net = "none" /\ page = [st |-> "none"]
    /\ body = [st |-> "none"] /\ segments = <<>>
    /\ reqLog = <<>> /\ result = [st |-> "none"] /\ stdout = <<>> /\ stderr = <<>>
    /\ exitCode = NoExit /\ markdown = [st |-> "none"]

(***************************************************************************)
(* Identifier-extractor runs: extractVideoId, and extractVideoId again on  *)
(* what it returned                                                        *)
(***************************************************************************)
InitExtract ==
    /\ xUrl \in ExtractInputs
    /\ xOut = NotRun /\ xAgain = NotRun
    /\ ParseParked /\ SubtitleParked /\ PickParked /\ ExecParked /\ OrchParked /\ UnitParked

ExtractCall ==
    /\ xOut = NotRun
    /\ xOut' = extractVideoId(xUrl)
    /\ UNCHANGED <<xUrl, xAgain, parseVars, subtitleVars, pickVars, execVars, orchVars, unitVars>>

\* The identifier a caller holds is handed to extractVideoId once more.
ExtractAgain ==
    /\ xOut # NotRun /\ xOut # Null /\ xAgain = NotRun
    /\ xAgain' = extractVideoId(xOut)
    /\ UNCHANGED <<xUrl, xOut, parseVars, subtitleVars, pickVars, execVars, orchVars, unitVars>>

NextExtract == ExtractCall \/ ExtractAgain

SpecExtract == InitExtract /\ [][NextExtract]_vars

(***************************************************************************)
(* Parser runs: parseTranscriptXml on a payload, formatSegments on the     *)
(* segments it returned                                                    *)
(***************************************************************************)
\* Most pieces a payload is put together from.
MaxParts == 2

\* The pieces: what stands in the payload, what kind of markup it is, and the
\* segment a reader of the format takes from it (text <<>> for none). Times are
\* in thousandths of a second.
Pieces == <<
    [src |-> <<"<","t","e","x","t"," ","s","t","a","r","t","=","\"","0","\""," ","d","u","r",
        "=","\"","2","\"",">","H","e","l","l","o","<","/","t","e","x","t",">">>,
     kind |-> "text", text |-> <<"H","e","l","l","o">>, start |-> 0, duration |-> 2000],
    [src |-> <<"<","t","e","x","t"," ","s","t","a","r","t","=","\"","2","\""," ","d","u","r",
        "=","\"","2","\"",">","W","o","r","l","d","<","/","t","e","x","t",">">>,
     kind |-> "text", text |-> <<"W","o","r","l","d">>, start |-> 2000, duration |-> 2000],
    [src |-> <<"<","t","e","x","t"," ","s","t","a","r","t","=","\"","7","5",".","5","\""," ",
        "d","u","r","=","\"","1",".","2","5","\""," ",">","i","t","&","#","3","9",";","s",
        "\n"," ","&","a","m","p",";"," ","g","r","e","a","t"," ","<","/","t","e","x","t",">">>,
     kind |-> "text", text |-> <<"i","t","&","#","3","9",";","s","\n"," ","&","a","m","p",";",
         " ","g","r","e","a","t"," ">>, start |-> 75500, duration |-> 1250],
    [src |-> <<"<","t","e","x","t"," ","s","t","a","r","t","=","\"","4","\""," ","d","u","r",
        "=","\"","1","\"",">"," "," ","<","/","t","e","x","t",">">>,
     kind |-> "text", text |-> <<>>, start |-> 4000, duration |-> 1000],
    [src |-> <<"<","t","e","x","t"," ","s","t","a","r","t","=","\"","7","\"",">","N","o"," ",
        "d","u","r","<","/","t","e","x","t",">">>,
     kind |-> "text", text |-> <<"N","o"," ","d","u","r">>, start |-> 7000, duration |-> 0],
    [src |-> <<"<","t","e","x","t",">","N","o"," ","a","t","t","r","i","b","u","t","e","s",
        "<","/","t","e","x","t",">">>,
     kind |-> "textBare", text |-> <<"N","o"," ","a","t","t","r","i","b","u","t","e","s">>, start |-> 0, duration |-> 0],
    [src |-> <<"<","t","e","x","t"," ","s","t","a","r","t","=","\"","9","\""," ","d","u","r",
        "=","\"","1","\"",">","u","n","c","l","o","s","e","d">>,
     kind |-> "unclosedText", text |-> <<>>, start |-> 0, duration |-> 0],
    [src |-> <<"<","p"," ","t","=","\"","0","\""," ","d","=","\"","5","0","0","0","\"",">",
        "<","s",">","o","n","e"," ","<","/","s",">","<","s"," ","a","c","=","\"","0","\"",">",
        "t","w","o","<","/","s",">","<","/","p",">">>,
     kind |-> "p", text |-> <<"o","n","e"," ","t","w","o">>, start |-> 0, duration |-> 5000],
    [src |-> <<"<","p"," ","t","=","\"","7","2","5","5","0","0","\""," ","d","=","\"","3","0",
        "0","0","\"",">","P","l","a","i","n"," ","<","b",">","t","e","x","t","<","/","b",">",
        " ","h","e","r","e"," ","<","/","p",">">>,
     kind |-> "p", text |-> <<"P","l","a","i","n"," ","t","e","x","t"," ","h","e","r","e">>, start |-> 725500, duration |-> 3000],
    [src |-> <<"<","p"," ","t","=","\"","8","0","0","0","\""," ","d","=","\"","1","0","0",
        "\"",">","<","s",">","<","/","s",">"," ","<","/","p",">">>,
     kind |-> "p", text |-> <<>>, start |-> 8000, duration |-> 100],
    [src |-> <<"<","p"," ","t","=","\"","9","0","0","0","\"",">","u","n","c","l","o","s","e",
        "d"," ","p","a","r","a","g","r","a","p","h">>,
     kind |-> "unclosedP", text |-> <<>>, start |-> 0, duration |-> 0],
    [src |-> <<"j","u","s","t"," ","s","o","m","e"," ","t","e","x","t">>,
     kind |-> "other", text |-> <<>>, start |-> 0, duration |-> 0],
    [src |-> <<"<","r","o","o","t",">","<","i","t","e","m",">","d","a","t","a","<","/","i",
        "t","e","m",">","<","/","r","o","o","t",">">>,
     kind |-> "other", text |-> <<>>, start |-> 0, duration |-> 0],
    [src |-> <<"<","t","e","x","t"," ","s","t","a","r","t","=","\"","a","b","c","\""," ","d","u",
        "r","=","\"","\"",">","B","a","d"," ","f","i","e","l","d","s","<","/","t","e","x",
        "t",">">>,
     kind |-> "text", text |-> <<"B","a","d"," ","f","i","e","l","d","s">>, start |-> 0,
     duration |-> 0] >>

PartLists == UNION {[1..n -> 1..Len(Pieces)] : n \in 0..MaxParts}

\* The payload: the pieces one after the other.
Xml == join([k \in 1..Len(xmlParts) |-> Pieces[xmlParts[k]].src], <<>>)

InitParse ==
    /\ xmlParts \in PartLists
    /\ parsed = NotRunYet
    /\ options \in [timestamps : BOOLEAN]
    /\ transcript = NotRun
    /\ ExtractParked /\ SubtitleParked /\ PickParked /\ ExecParked /\ OrchParked /\ UnitParked

ParseCall ==
    /\ parsed.st = "notrun"
    /\ parsed' = [st |-> "returned", val |-> parseTranscriptXml(Xml)]
    /\ UNCHANGED <<xmlParts, options, transcript, extractVars, subtitleVars, pickVars,
                   execVars, orchVars, unitVars>>

\* formatSegments is called with the segments of a strategy that returned: one
\* segment at least.
FormatCall ==
    /\ parsed.st = "returned" /\ Len(parsed.val) > 0 /\ transcript = NotRun
    /\ transcript' = formatSegments(parsed.val, options.timestamps)
    /\ UNCHANGED <<xmlParts, parsed, options, extractVars, subtitleVars, pickVars,
                   execVars, orchVars, unitVars>>

NextParse == ParseCall \/ FormatCall

SpecParse == InitParse /\ [][NextParse]_vars

(***************************************************************************)
(* Subtitle-content runs: what fetchTranscriptFromYtDlp does with the      *)
(* content curl returned, and vttToPlainText on the same content           *)
(***************************************************************************)
\* Most lines behind the header of a subtitle file.
MaxLines == 3

\* The lines behind the header: what stands in the file, and the text a reader
\* of the format takes from it (<<>> for a line that carries no text).
SubtitleCues == <<
    [src |-> <<"K","i","n","d",":"," ","c","a","p","t","i","o","n","s">>, text |-> <<>>],
    [src |-> <<"L","a","n","g","u","a","g","e",":"," ","e","n">>, text |-> <<>>],
    [src |-> <<"N","O","T","E"," ","m","a","d","e"," ","b","y"," ","h","a","n","d">>, text |-> <<>>],
    [src |-> <<"1","2">>, text |-> <<>>],
    [src |-> <<"0","0",":","0","0",":","0","0",".","0","0","0"," ","-","-",">"," ","0","0",
        ":","0","0",":","0","2",".","0","0","0">>, text |-> <<>>],
    [src |-> <<>>, text |-> <<>>],
    [src |-> <<"H","e","l","l","o"," ","w","o","r","l","d">>, text |-> <<"H","e","l","l","o",
        " ","w","o","r","l","d">>],
    [src |-> <<"<","c",">","H","e","l","l","o","<","/","c",">"," ","w","o","r","l","d">>, text |-> <<"H",
        "e","l","l","o"," ","w","o","r","l","d">>],
    [src |-> <<"a"," ","&","a","m","p",";"," ","b">>, text |-> <<"a"," ","&","a","m","p",";",
        " ","b">>],
    [src |-> <<"a"," ","&"," ","b">>, text |-> <<"a"," ","&"," ","b">>],
    [src |-> <<" ","S","e","c","o","n","d"," ","l","i","n","e","\r">>, text |-> <<"S","e","c",
        "o","n","d"," ","l","i","n","e">>],
    [src |-> <<"i","t","&","#","3","9",";","s"," "," ","&","a","m","p",";","\t","<","c",">",
        "g","r","e","a","t","<","/","c",">">>,
     text |-> <<"i","t","&","#","3","9",";","s"," "," ","&","a","m","p",";","\t","g","r","e",
        "a","t">>] >>

\* Subtitle content whose caption text carries entities, one per format: what
\* is received, the text of its one segment as it stands in the content, and
\* the text a reader sees.
EntityContents == <<
    [content |-> <<"<","t","r","a","n","s","c","r","i","p","t",">","<","t","e","x","t"," ",
        "s","t","a","r","t","=","\"","0","\""," ","d","u","r","=","\"","2","\"",">","i","t",
        "&","#","3","9",";","s"," ","&","a","m","p",";"," ","g","r","e","a","t","<","/","t",
        "e","x","t",">","<","/","t","r","a","n","s","c","r","i","p","t",">">>,
     raw |-> <<"i","t","&","#","3","9",";","s"," ","&","a","m","p",";"," ","g","r","e","a","t">>, shown |-> <<"i",
         "t","'","s"," ","&"," ","g","r","e","a","t">>],
    [content |-> <<"<","t","i","m","e","d","t","e","x","t",">","<","b","o","d","y",">","<",
        "p"," ","t","=","\"","0","\""," ","d","=","\"","2","0","0","0","\"",">","<","s",">",
        "&","l","t",";","i","t","&","#","3","9",";","s","&","g","t",";","<","/","s",">","<",
        "s",">"," ","&","a","m","p",";","&","n","b","s","p",";","&","q","u","o","t",";","g",
        "r","&","#","1","0","1",";","a","t","&","q","u","o","t",";","<","/","s",">","<","/",
        "p",">","<","/","b","o","d","y",">","<","/","t","i","m","e","d","t","e","x","t",">">>,
     raw |-> <<"&","l","t",";","i","t","&","#","3","9",";","s","&","g","t",";"," ","&","a",
         "m","p",";","&","n","b","s","p",";","&","q","u","o","t",";","g","r","&","#","1","0",
         "1",";","a","t","&","q","u","o","t",";">>, shown |-> <<"<","i","t","'","s",">"," ",
         "&"," ","\"","g","r","e","a","t","\"">>],
    [content |-> <<"W","E","B","V","T","T","\n","\n","0","0",":","0","0",":","0","0",".","0",
        "0","0"," ","-","-",">"," ","0","0",":","0","0",":","0","2",".","0","0","0","\n","i",
        "t","&","#","3","9",";","s"," "," ","&","a","m","p",";","\t","<","c",">","g","r","e",
        "a","t","<","/","c",">","\n">>,
     raw |-> <<"i","t","&","#","3","9",";","s"," "," ","&","a","m","p",";","\t","g","r","e",
         "a","t">>, shown |-> <<"i","t","'","s"," ","&"," ","g","r","e","a","t">>],
    [content |-> <<"<","t","r","a","n","s","c","r","i","p","t",">","<","t","e","x","t"," ","s","t","a",
        "r","t","=","\"","0","\""," ","d","u","r","=","\"","1","\"",">","&","n","b","s","p",
        ";","<","/","t","e","x","t",">","<","/","t","r","a","n","s","c","r","i","p","t",">">>,
     raw |-> <<"&","n","b","s","p",";">>, shown |-> <<>>] >>

SubtitleLines == {SubtitleCues[k].src : k \in 1..Len(SubtitleCues)}

LineLists == UNION {[1..n -> SubtitleLines] : n \in 0..MaxLines}

\* A subtitle file: the header line and the lines behind it. Content that is no
\* subtitle file at all, and subtitle XML, are received too.
SubtitleContents ==
    {join(<<Webvtt>> \o ls, <<"\n">>) : ls \in LineLists}
    \cup {<<>>, <<"\n">>, <<"N","o","t"," ","F","o","u","n","d">>, <<"H","e","l","l","o"," ",
        "w","o","r","l","d","\n","H","e","l","l","o"," ","w","o","r","l","d">>, HelloWorldXml}
    \cup {EntityContents[k].content : k \in 1..Len(EntityContents)}

InitSubtitle ==
    /\ subResp \in SubtitleContents
    /\ textSegments = NotRunYet
    /\ plainText = NotRun
    /\ cliSegments = NotRunYet
    /\ ExtractParked /\ ParseParked /\ PickParked /\ ExecParked /\ OrchParked /\ UnitParked

\* fetchTranscriptFromYtDlp from `if (!subResp || ...)` to its end.
SubtitleContent ==
    /\ textSegments.st = "notrun"
    /\ textSegments' =
          With(YtDlpSegments("raycast", subResp), LAMBDA segments_ :
              IF EmptyContent(subResp)
              THEN [st |-> "threw", val |-> <<>>,
                    message |-> "yt-dlp: subtitle URL returned empty"]
              ELSE IF Len(segments_) = 0
              THEN [st |-> "threw", val |-> <<>>,
                    message |-> "yt-dlp: could not parse subtitle content"]
              ELSE [st |-> "returned", val |-> segments_, message |-> ""])
    /\ UNCHANGED <<subResp, plainText, cliSegments, extractVars, parseVars, pickVars,
                   execVars, orchVars, unitVars>>

VttToPlainTextCall ==
    /\ plainText = NotRun
    /\ plainText' = vttToPlainText(subResp)
    /\ UNCHANGED <<subResp, textSegments, cliSegments, extractVars, parseVars, pickVars,
                   execVars, orchVars, unitVars>>

\* getVideoTranscript hands the segments Strategy C returned to formatSegments.
SubtitleFormatCall ==
    /\ textSegments.st = "returned" /\ transcript = NotRun
    /\ \E timestamps \in BOOLEAN :
          /\ options' = [timestamps |-> timestamps]
          /\ transcript' = formatSegments(textSegments.val, timestamps)
    /\ UNCHANGED <<xmlParts, parsed, subtitleVars, extractVars, pickVars, execVars, orchVars, unitVars>>

NextSubtitle == SubtitleContent \/ VttToPlainTextCall \/ SubtitleFormatCall

SpecSubtitle == InitSubtitle /\ [][NextSubtitle]_vars

(***************************************************************************)
(* Side-by-side runs: utils.ts and cli.mjs on the same subtitle content    *)
(***************************************************************************)
\* fetchTranscriptFromYtDlp of cli.mjs from `if (!subResp || ...)` to its end.
CliSubtitleContent ==
    /\ cliSegments.st = "notrun"
    /\ cliSegments' =
          With(YtDlpSegments("cli", subResp), LAMBDA segments_ :
              IF EmptyContent(subResp)
              THEN [st |-> "threw", val |-> <<>>,
                    message |-> "yt-dlp: subtitle URL returned empty"]
              ELSE IF Len(segments_) = 0
              THEN [st |-> "threw", val |-> <<>>,
                    message |-> "yt-dlp: could not parse subtitle content"]
              ELSE [st |-> "returned", val |-> segments_, message |-> ""])
    /\ UNCHANGED <<subResp, textSegments, plainText, extractVars, parseVars, pickVars,
                   execVars, orchVars, unitVars>>

NextCompare == SubtitleContent \/ CliSubtitleContent

SpecCompare == InitSubtitle /\ [][NextCompare]_vars

(***************************************************************************)
(* Track-selector runs: pickTrackUrl called on one track list, repeatedly  *)
(***************************************************************************)
\* Most tracks in a list, and most calls made on it.
MaxTracks == 3
MaxCalls == 2

LanguageCodes == {<<"e","n">>, <<"e","n","-","U","S">>, <<"f","r">>, <<"d","e">>, <<"b","e",
    "n">>}

\* captionTracks as the callers hand them on: one track at least, each with
\* its own URL.
TrackLists ==
    UNION {{[i \in 1..n |-> [baseUrl |-> <<"u", Digits10[i + 1]>>, languageCode |-> c[i]]] :
                c \in [1..n -> LanguageCodes]} : n \in 1..MaxTracks}

InitPick ==
    /\ tracks \in TrackLists
    /\ picked = <<>>
    /\ ExtractParked /\ ParseParked /\ SubtitleParked /\ ExecParked /\ OrchParked /\ UnitParked

PickCall ==
    /\ Len(picked) < MaxCalls
    /\ picked' = Append(picked, pickTrackUrl(tracks))
    /\ UNCHANGED <<tracks, extractVars, parseVars, subtitleVars, execVars, orchVars, unitVars>>

NextPick == PickCall

SpecPick == InitPick /\ [][NextPick]_vars

(***************************************************************************)
(* Subprocess runs: one execSync call of Strategy C                        *)
(***************************************************************************)
\* Longest argument put together from the characters below.
MaxArgLen == 3

\* Identifier characters, as extractVideoId lets them through.
ExecIdChars == {"a", "9", "-", "_"}
\* Characters of a URL string in the tool's metadata.
ExecUrlChars == {"a", "/", "-", "\"", BackQuote, "$", ";", " "}

StringsOver(chars, n) == UNION {[1..k -> chars] : k \in 1..n}

\* A subtitle URL as the tool reports it.
TimedTextUrl == <<"h","t","t","p","s",":","/","/","w","w","w",".","y","o","u","t","u","b","e",
    ".","c","o","m","/","a","p","i","/","t","i","m","e","d","t","e","x","t","?","v","=","d",
    "Q","w","4","w","9","W","g","X","c","Q","&","f","m","t","=","s","r","v","1","&","l","a",
    "n","g","=","e","n">>

ExecCalls ==
    {[kind |-> "ytdlp", arg |-> a] :
        a \in StringsOver(ExecIdChars, MaxArgLen) \cup {ValidId, DashId}}
    \cup {[kind |-> "curl", arg |-> a] :
        a \in StringsOver(ExecUrlChars, MaxArgLen) \cup {TimedTextUrl}}

\* The command string of the call.
CommandOf(call) ==
    IF call.kind = "ytdlp" THEN YtDlpCommand(call.arg) ELSE CurlCommand(call.arg)

InitExec ==
    /\ execCall \in ExecCalls
    /\ ran = NotRunYet
    /\ ExtractParked /\ ParseParked /\ SubtitleParked /\ PickParked /\ OrchParked /\ UnitParked

ExecSyncCall ==
    /\ ran.st = "notrun"
    /\ ran' = [st |-> "done", sh |-> execSync(CommandOf(execCall))]
    /\ UNCHANGED <<execCall, extractVars, parseVars, subtitleVars, pickVars, orchVars, unitVars>>

NextExec == ExecSyncCall

SpecExec == InitExec /\ [][NextExec]_vars

(***************************************************************************)
(* Subtitle-source runs: fetchTranscriptFromYtDlp from `const subs` to the *)
(* throw of "no subtitle sources found"                                    *)
(***************************************************************************)
\* Most languages in one map of the metadata.
MaxLangs == 2
Langs == {"en", "en-US", "fr"}

\* Sequences of at most n distinct members of S.
InjSeqs(S, n) ==
    UNION {{f \in [1..k -> S] : \A i, j \in 1..k : i # j => f[i] # f[j]} : k \in 0..n}

\* The encodings the tool lists for a language of a map, when it lists any.
ListOf(kind, lang) == <<[ext |-> "srv1", url |-> <<kind, lang>>]>>

\* A map of the metadata: absent, or its languages in the order JSON.parse keeps
\* them, each with a list of encodings that may be empty.
Maps(kind) ==
    {[present |-> FALSE, entries |-> <<>>]}
    \cup {[present |-> TRUE,
           entries |-> [k \in 1..Len(ls) |->
                           [lang |-> ls[k],
                            list |-> IF ne[k] THEN ListOf(kind, ls[k]) ELSE <<>>]]] :
             ls \in InjSeqs(Langs, MaxLangs), ne \in [1..MaxLangs -> BOOLEAN]}

Infos ==
    {[subtitles |-> m, automatic_captions |-> a] :
        m \in Maps("subtitles"), a \in Maps("automatic_captions")}

\* `m || {}`
OrEmptyObject(m) == IF m.present THEN m.entries ELSE <<>>

\* obj[key]: <<the value>>, and <<>> for undefined
Get(entries, key) ==
    With({k \in 1..Len(entries) : entries[k].lang = key}, LAMBDA ks :
        IF ks = {} THEN <<>> ELSE <<entries[CHOOSE k \in ks : TRUE].list>>)

\* Object.values(obj)[0]
FirstValue(entries) == IF Len(entries) = 0 THEN <<>> ELSE <<entries[1].list>>

\* `a || b` of two values that are an array or undefined: every array is truthy,
\* the empty one too.
OrElse(a, b) == IF Len(a) > 0 THEN a ELSE b

\* const subSource = ...
SubSourceOf(info_) ==
    With(OrEmptyObject(info_.subtitles), LAMBDA subs :
    With(OrEmptyObject(info_.automatic_captions), LAMBDA autoCaps :
        OrElse(Get(subs, "en"),
        OrElse(Get(subs, "en-US"),
        OrElse(FirstValue(subs),
        OrElse(Get(autoCaps, "en"),
        OrElse(Get(autoCaps, "en-US"),
               FirstValue(autoCaps))))))))

InitSource ==
    /\ info \in Infos
    /\ subSource = NotRunYet
    /\ ExtractParked /\ ParseParked /\ SubtitleParked /\ PickParked /\ ExecParked
    /\ OrchParked
    /\ TrackParked /\ JsonParked /\ StampParked /\ DecodeParked

\* `const subSource = ...; if (!subSource || subSource.length === 0) throw ...`
SourceCall ==
    /\ subSource.st = "notrun"
    /\ subSource' =
          With(SubSourceOf(info), LAMBDA s :
              IF Len(s) = 0 \/ Len(s[1]) = 0
              THEN [st |-> "threw", val |-> <<>>,
                    message |-> "yt-dlp: no subtitle sources found"]
              ELSE [st |-> "chosen", val |-> s[1], message |-> ""])
    /\ UNCHANGED <<info, extractVars, parseVars, subtitleVars, pickVars, execVars,
                   orchVars, trackVars, jsonVars, stampVars, decodeVars>>

NextSource == SourceCall

SpecSource == InitSource /\ [][NextSource]_vars

(***************************************************************************)
(* Encoding-selector runs: `const track = ...` of fetchTranscriptFromYtDlp *)
(* in utils.ts and in cli.mjs, on the same list                            *)
(***************************************************************************)
\* Most encodings in the list of one language.
MaxExts == 3
Exts == {"json3", "srv1", "srv2", "srv3", "vtt"}

\* A non-empty list of encodings, with their URLs or all without one.
EncodingLists ==
    {[k \in 1..Len(es) |-> [ext |-> es[k], url |-> IF withUrl THEN <<"url", es[k]>> ELSE <<>>]] :
        es \in InjSeqs(Exts, MaxExts) \ {<<>>}, withUrl \in BOOLEAN}

\* subSource.find((s) => s.ext === ext): <<the track>>, and <<>> for undefined
Find(list, ext) ==
    With({k \in 1..Len(list) : list[k].ext = ext}, LAMBDA ks :
        IF ks = {} THEN <<>>
        ELSE <<list[CHOOSE k \in ks : \A j \in ks : k <= j]>>)

\* The encodings each front end looks for, in order.
Preferred(fe) ==
    IF fe = "cli" THEN <<"srv1", "srv3", "vtt">> ELSE <<"srv1", "srv2", "srv3", "vtt">>

\* The chain of find calls from the k-th preference on, ending in subSource[0].
RECURSIVE TrackFrom(_, _, _)
TrackFrom(fe, list, k) ==
    IF k > Len(Preferred(fe)) THEN <<list[1]>>
    ELSE OrElse(Find(list, Preferred(fe)[k]), TrackFrom(fe, list, k + 1))

\* `const track = ...; if (!track?.url) throw ...`
TrackOf(fe, list) ==
    With(TrackFrom(fe, list, 1)[1], LAMBDA track :
        IF Len(track.url) = 0
        THEN [st |-> "threw", ext |-> "", url |-> <<>>,
              message |-> "yt-dlp: no subtitle track URL"]
        ELSE [st |-> "chosen", ext |-> track.ext, url |-> track.url, message |-> ""])

InitTrack ==
    /\ encodings \in EncodingLists
    /\ trackLib = NotRunYet /\ trackCli = NotRunYet
    /\ ExtractParked /\ ParseParked /\ SubtitleParked /\ PickParked /\ ExecParked
    /\ OrchParked
    /\ SourceParked /\ JsonParked /\ StampParked /\ DecodeParked

\* utils.ts
LibTrackCall ==
    /\ trackLib.st = "notrun"
    /\ trackLib' = TrackOf("raycast", encodings)
    /\ UNCHANGED <<encodings, trackCli, extractVars, parseVars, subtitleVars, pickVars,
                   execVars, orchVars, sourceVars, jsonVars, stampVars, decodeVars>>

\* cli.mjs
CliTrackCall ==
    /\ trackCli.st = "notrun"
    /\ trackCli' = TrackOf("cli", encodings)
    /\ UNCHANGED <<encodings, trackLib, extractVars, parseVars, subtitleVars, pickVars,
                   execVars, orchVars, sourceVars, jsonVars, stampVars, decodeVars>>

NextTrack == LibTrackCall \/ CliTrackCall

SpecTrack == InitTrack /\ [][NextTrack]_vars

(***************************************************************************)
(* Properties of the subtitle source and of the encoding chosen from it    *)
(***************************************************************************)
\* The lists of a map, in the order of its languages.
ValuesOf(m) == [k \in 1..Len(m.entries) |-> m.entries[k].list]

\* The lists of the metadata in the stated priority: manual English, any manual
\* track, auto-generated English, any auto-generated track.
ByPriority(info_) ==
    Get(info_.subtitles.entries, "en") \o Get(info_.subtitles.entries, "en-US")
        \o ValuesOf(info_.subtitles)
        \o Get(info_.automatic_captions.entries, "en")
        \o Get(info_.automatic_captions.entries, "en-US")
        \o ValuesOf(info_.automatic_captions)

NonEmptyByPriority(info_) == SelectSeq(ByPriority(info_), LAMBDA l : Len(l) > 0)

\* C22: whenever some language of subtitles or of automatic_captions has a
\* non-empty list of encodings, Strategy C chooses the first such list in the
\* priority manual English, any manual, automatic English, any automatic; it
\* throws "no subtitle sources found" only when no language has one.
C22_SourcePriority ==
    subSource.st # "notrun" =>
        IF Len(NonEmptyByPriority(info)) = 0
        THEN subSource.st = "threw"
        ELSE /\ subSource.st = "chosen"
             /\ subSource.val = NonEmptyByPriority(info)[1]

\* The stated priority is what the code follows as long as no list is empty.
C22_NoEmptyList ==
    (/\ subSource.st # "notrun"
     /\ \A k \in 1..Len(ByPriority(info)) : Len(ByPriority(info)[k]) > 0)
        => IF Len(ByPriority(info)) = 0
           THEN subSource.st = "threw"
           ELSE subSource.st = "chosen" /\ subSource.val = ByPriority(info)[1]

\* An empty English list hides the French one behind it.
C22_EmptyListFirst ==
    /\ subSource.st = "threw"
    /\ Len(NonEmptyByPriority(info)) > 0

Has(list, ext) == \E k \in 1..Len(list) : list[k].ext = ext

\* The encoding the stated preference selects from a list.
StatedExt(list) ==
    IF Has(list, "srv1") THEN "srv1"
    ELSE IF Has(list, "srv3") THEN "srv3"
    ELSE IF Has(list, "vtt") THEN "vtt"
    ELSE list[1].ext

\* C23: the track Strategy C fetches is the srv1 encoding of the chosen list if
\* it has one, otherwise srv3, otherwise vtt, otherwise the first listed one; no
\* other encoding goes before srv3 or vtt.
C23_EncodingPreference ==
    /\ trackLib.st = "chosen" => trackLib.ext = StatedExt(encodings)
    /\ trackCli.st = "chosen" => trackCli.ext = StatedExt(encodings)

\* cli.mjs follows the stated preference.
C23_CliPreference == trackCli.st = "chosen" => trackCli.ext = StatedExt(encodings)

\* utils.ts takes srv2 although the list has srv3 or vtt.
C23_Srv2First ==
    /\ trackLib.st = "chosen" /\ trackLib.ext = "srv2"
    /\ Has(encodings, "srv3") \/ Has(encodings, "vtt")

(***************************************************************************)
(* Brace-scanner runs: one call of extractJsonObject                       *)
(***************************************************************************)
\* Longest string handed to extractJsonObject.
MaxJsonLen == 5
JsonChars == {"{", "}", "\"", "a"}

\* A string and a start index, counted from 0 as the code counts; -1 is what
\* indexOf gives without a match, Len(str) is the first index past the end.
JsonInputs ==
    {[str |-> str, startIdx |-> i] :
        str \in UNION {[1..n -> JsonChars] : n \in 0..MaxJsonLen}, i \in -1..MaxJsonLen}

\* str[i], "undefined" outside the string
CharAt(str, i) == IF i >= 0 /\ i < Len(str) THEN str[i + 1] ELSE "undefined"

\* The string from startIdx to its last closing brace.
extractToLastBrace(str, startIdx) ==
    IF CharAt(str, startIdx) # "{" THEN Null
    ELSE With({e \in startIdx..(Len(str) - 1) : str[e + 1] = "}"}, LAMBDA closing :
        IF closing = {} THEN Null
        ELSE SubSeq(str, startIdx + 1, (CHOOSE e \in closing : \A f \in closing : f <= e) + 1))

\* The for loop of extractJsonObject at index i with the depth counted so far.
RECURSIVE ScanBraces(_, _, _, _)
ScanBraces(str, startIdx, i, depth) ==
    IF i >= Len(str) THEN Null
    ELSE With(IF str[i + 1] = "{" THEN depth + 1
              ELSE IF str[i + 1] = "}" THEN depth - 1
              ELSE depth, LAMBDA d :
             IF d = 0 THEN SubSeq(str, startIdx + 1, i + 1)
             ELSE ScanBraces(str, startIdx, i + 1, d))

extractJsonObject(str, startIdx) ==
    IF CharAt(str, startIdx) # "{" THEN Null
    ELSE ScanBraces(str, startIdx, startIdx, 0)

InitJson ==
    /\ jsonIn \in JsonInputs
    /\ jsonOut = NotRun
    /\ ExtractParked /\ ParseParked /\ SubtitleParked /\ PickParked /\ ExecParked
    /\ OrchParked
    /\ SourceParked /\ TrackParked /\ StampParked /\ DecodeParked

ExtractJsonCall ==
    /\ jsonOut = NotRun
    /\ jsonOut' = extractJsonObject(jsonIn.str, jsonIn.startIdx)
    /\ UNCHANGED <<jsonIn, extractVars, parseVars, subtitleVars, pickVars, execVars,
                   orchVars, sourceVars, trackVars, stampVars, decodeVars>>

NextJson == ExtractJsonCall

SpecJson == InitJson /\ [][NextJson]_vars

(***************************************************************************)
(* Properties of extractJsonObject (checked under SpecJson)                *)
(***************************************************************************)
Count(t, c) == Cardinality({k \in 1..Len(t) : t[k] = c})

\* t has as many opening as closing braces.
Balanced(t) == Count(t, "{") = Count(t, "}")

\* The lengths of the non-empty balanced substrings of str that start at index i.
BalancedLengths(str, i) ==
    {n \in 1..(Len(str) - i) : Balanced(SubSeq(str, i + 1, i + n))}

\* C26: extractJsonObject(str, i) is null when str[i] is not an opening brace or
\* when no substring starting at i balances; otherwise it is the shortest balanced
\* substring starting at i: it starts with "{", ends with "}", has as many of the
\* one as of the other, and each of its proper prefixes has more opening than
\* closing braces. Braces inside string literals count like all others.
C26_ShortestBalanced ==
    jsonOut # NotRun =>
        LET str == jsonIn.str
            i == jsonIn.startIdx
        IN  IF CharAt(str, i) # "{" \/ BalancedLengths(str, i) = {}
            THEN jsonOut = Null
            ELSE /\ jsonOut # Null
                 /\ \E n \in BalancedLengths(str, i) :
                       /\ \A m \in BalancedLengths(str, i) : n <= m
                       /\ jsonOut = SubSeq(str, i + 1, i + n)
                 /\ jsonOut[1] = "{" /\ jsonOut[Len(jsonOut)] = "}"
                 /\ Balanced(jsonOut)
                 /\ \A n \in 1..(Len(jsonOut) - 1) :
                       Count(SubSeq(jsonOut, 1, n), "{") > Count(SubSeq(jsonOut, 1, n), "}")

\* The scan of a{"}"} from index 1 stopped at the brace inside the string
\* literal.
C26_Witness ==
    /\ jsonIn = [str |-> <<"a", "{", "\"", "}", "\"">>, startIdx |-> 1]
    /\ jsonOut # NotRun /\ jsonOut # Null
    /\ jsonOut = <<"{", "\"", "}">>

(***************************************************************************)
(* Timestamp runs: one call of formatTimestamp on a whole number of seconds*)
(***************************************************************************)
\* Latest segment start handed to formatTimestamp, in seconds: 100 minutes 59.
MaxSeconds == 6059

InitStamp ==
    /\ startSecs \in 0..MaxSeconds
    /\ stamp = NotRun
    /\ ExtractParked /\ ParseParked /\ SubtitleParked /\ PickParked /\ ExecParked
    /\ OrchParked
    /\ SourceParked /\ TrackParked /\ JsonParked /\ DecodeParked

FormatTimestampCall ==
    /\ stamp = NotRun
    /\ stamp' = formatTimestamp(FromInt(startSecs))
    /\ UNCHANGED <<startSecs, extractVars, parseVars, subtitleVars, pickVars, execVars,
                   orchVars, sourceVars, trackVars, jsonVars, decodeVars>>

NextStamp == FormatTimestampCall

SpecStamp == InitStamp /\ [][NextStamp]_vars

(***************************************************************************)
(* Properties of formatTimestamp (checked under SpecStamp)                 *)
(***************************************************************************)
\* The position of the colon in a rendering.
ColonAt(t) == CHOOSE k \in 1..Len(t) : t[k] = ":"

\* C27: for a whole number s of seconds formatTimestamp(s) is two digits of
\* minutes, a colon and two digits of seconds, with minutes = floor(s / 60),
\* seconds = s mod 60 in 0..59 and minutes * 60 + seconds = s.
C27_MinutesSeconds ==
    stamp # NotRun =>
        /\ Len(stamp) = 5 /\ stamp[3] = ":"
        /\ AllDigits(SubSeq(stamp, 1, 2)) /\ AllDigits(SubSeq(stamp, 4, 5))
        /\ ToNat(SubSeq(stamp, 1, 2)) = startSecs \div SecondsPerMinute
        /\ ToNat(SubSeq(stamp, 4, 5)) = startSecs % SecondsPerMinute
        /\ ToNat(SubSeq(stamp, 1, 2)) * SecondsPerMinute + ToNat(SubSeq(stamp, 4, 5))
              = startSecs

\* The decomposition itself is right for every s: digits of minutes (two at
\* least), a colon, two digits of seconds below 60, adding up to s.
C27_Decomposition ==
    stamp # NotRun =>
        LET c == ColonAt(stamp)
            mins == SubSeq(stamp, 1, c - 1)
            secs == SubSeq(stamp, c + 1, Len(stamp))
        IN  /\ Len(mins) >= 2 /\ Len(secs) = 2 /\ AllDigits(mins) /\ AllDigits(secs)
            /\ ToNat(secs) < SecondsPerMinute
            /\ ToNat(mins) * SecondsPerMinute + ToNat(secs) = startSecs

\* A start of 6000 seconds is rendered 100:00.
C27_ThreeDigitMinutes ==
    /\ startSecs = 6000
    /\ stamp # NotRun /\ stamp = <<"1", "0", "0", ":", "0", "0">>

(***************************************************************************)
(* Decoder runs: one call of decodeHtmlEntities                            *)
(***************************************************************************)
\* Most pieces in a text handed to decodeHtmlEntities.
MaxDecodeParts == 3

\* Entities, ends of entities, a letter and a space.
DecodePieces ==
    <<<<"&","a","m","p",";">>,
      <<"l","t",";">>,
      <<"&","l","t",";">>,
      <<"#","6","5",";">>,
      <<"&","#","3","9",";">>,
      <<"&","n","b","s","p",";">>,
      <<"a">>,
      <<" ">>,
      <<"&","q","u","o","t",";">>,
      <<"&","g","t",";">>>>

DecodeInputs ==
    {join([k \in 1..Len(ps) |-> DecodePieces[ps[k]]], <<>>) :
        ps \in UNION {[1..n -> 1..Len(DecodePieces)] : n \in 0..MaxDecodeParts}}

InitDecode ==
    /\ encoded \in DecodeInputs
    /\ decoded = NotRun
    /\ ExtractParked /\ ParseParked /\ SubtitleParked /\ PickParked /\ ExecParked
    /\ OrchParked
    /\ SourceParked /\ TrackParked /\ JsonParked /\ StampParked

DecodeCall ==
    /\ decoded = NotRun
    /\ decoded' = decodeHtmlEntities(encoded)
    /\ UNCHANGED <<encoded, extractVars, parseVars, subtitleVars, pickVars, execVars,
                   orchVars, sourceVars, trackVars, jsonVars, stampVars>>

NextDecode == DecodeCall

SpecDecode == InitDecode /\ [][NextDecode]_vars

(***************************************************************************)
(* Properties of decodeHtmlEntities (checked under SpecDecode)             *)
(***************************************************************************)
\* The named entities that start at index i of s.
NamedAt(s, i) == {k \in 1..Len(NamedEntities) : StartsWithAt(s, i, NamedEntities[k][1])}

\* The index of the ";" that ends a numeric reference starting at i, 0 without one.
NumericEnd(s, i) ==
    IF ~StartsWithAt(s, i, <<"&", "#">>) THEN 0
    ELSE With(SkipWhile(s, i + 2, Digit), LAMBDA e :
             IF e > i + 2 /\ e <= Len(s) /\ s[e] = ";" THEN e ELSE 0)

\* s from index i on with each entity replaced once, left to right; what a
\* replacement produced is not read again.
RECURSIVE SinglePass(_, _)
SinglePass(s, i) ==
    IF i > Len(s) THEN <<>>
    ELSE IF NamedAt(s, i) # {}
    THEN With(CHOOSE k \in NamedAt(s, i) : TRUE, LAMBDA k :
             NamedEntities[k][2] \o SinglePass(s, i + Len(NamedEntities[k][1])))
    ELSE IF NumericEnd(s, i) > 0
    THEN <<fromCharCode(ToNat(SubSeq(s, i + 2, NumericEnd(s, i) - 1)))>>
             \o SinglePass(s, NumericEnd(s, i) + 1)
    ELSE <<s[i]>> \o SinglePass(s, i + 1)

HasEntity(s) == \E i \in 1..Len(s) : NamedAt(s, i) # {} \/ NumericEnd(s, i) > 0

\* C28: decodeHtmlEntities decodes each entity of its input once and does not
\* decode what a replacement produced ("&amp;lt;" gives "&lt;", "&amp;#65;" gives
\* "&#65;"); an input without entity changes in its white space runs only.
C28_SinglePass ==
    decoded # NotRun => decoded = CollapseWhiteSpace(SinglePass(encoded, 1), 1)

\* Without an entity in the input only white space runs change.
C28_NoEntity ==
    (decoded # NotRun /\ ~HasEntity(encoded)) => decoded = CollapseWhiteSpace(encoded, 1)

\* "&amp;lt;" has been decoded to "<".
C28_DecodedTwice ==
    /\ encoded = <<"&","a","m","p",";","l","t",";">>
    /\ decoded # NotRun /\ decoded = <<"<">>

(***************************************************************************)
(* Collaborators: what the network and the subprocesses can answer         *)
(***************************************************************************)
NoTimeout == "none"

\* The timeout option each kind of call is made with. fetch is called with no
\* signal and no timeout; execSync is called with { timeout: ... }.
TimeoutOf(kind) ==
    CASE kind = "ytdlp" -> "45000ms"
      [] kind = "curl"  -> "15000ms"
      [] OTHER          -> NoTimeout

Request(kind) == [kind |-> kind, timeout |-> TimeoutOf(kind)]

\* Answers to the oEmbed request of fetchVideoTitle.
TitleResponses == {"reject", "status404", "notJson", "noTitle", "title"}

\* `YouTube Video ${videoId}`
Placeholder(id) == <<"YouTube Video ", id>>

\* fetchVideoTitle without its final return: a failed lookup gives no title.
FetchVideoTitleNoFallback(r, id) ==
    IF r = "title"
    THEN [st |-> "resolved", outcome |-> r, val |-> <<"Some Title">>]
    ELSE [st |-> "resolved", outcome |-> r, val |-> <<>>]

\* fetchVideoTitle once its request is answered: the state of its promise.
FetchVideoTitleSettled(r, id) ==
    IF r = "title"
    THEN [st |-> "resolved", outcome |-> r, val |-> <<"Some Title">>]
    ELSE [st |-> "resolved", outcome |-> r, val |-> Placeholder(id)]

\* Answers to the player request of fetchTranscriptFromAndroid.
PlayerResponses ==
    {"reject", "status403", "notJson", "noCaptions", "noTracklist", "emptyTracks", "tracks"}

\* The error fetchTranscriptFromAndroid throws on a player answer, Null when the
\* answer carries caption tracks. cli.mjs reads the tracks with optional chaining
\* and has one message for every missing part.
AndroidPlayerError(fe, r) ==
    CASE r = "reject"      -> "fetch failed"
      [] r = "status403"   -> "ANDROID API returned 403"
      [] r = "notJson"     -> "Unexpected token < in JSON"
      [] r = "noCaptions"  -> IF fe = "cli" THEN "ANDROID: no caption tracks"
                              ELSE "ANDROID: no captions in response"
      [] r = "noTracklist" -> IF fe = "cli" THEN "ANDROID: no caption tracks"
                              ELSE "ANDROID: no caption tracklist"
      [] r = "emptyTracks" -> "ANDROID: no caption tracks"
      [] OTHER             -> Null

\* Answers to the caption-track request of fetchCaptionTrack.
CaptionResponses == {"reject", "status404", "emptyBody", "noSegments", "blank", "xml"}

\* The subtitle payloads behind the answers that carry one.
Payload(r) ==
    CASE r = "xml"        -> HelloWorldXml
      [] r = "noSegments" -> <<"<","t","r","a","n","s","c","r","i","p","t",">","<","/","t",
          "r","a","n","s","c","r","i","p","t",">">>
      [] r = "blank"      -> <<"<","t","r","a","n","s","c","r","i","p","t",">","<","t","e",
          "x","t"," ","s","t","a","r","t","=","\"","0","\""," ","d","u","r","=","\"","1","\"",
          ">"," ","<","/","t","e","x","t",">","<","/","t","r","a","n","s","c","r","i","p","t",
          ">">>
      [] r = "garbage"    -> <<"N","o","t"," ","F","o","u","n","d">>
      [] r = "vttText"    -> <<"W","E","B","V","T","T","\n","\n","0","0",":","0","0",":","0",
          "0",".","0","0","0"," ","-","-",">"," ","0","0",":","0","0",":","0","2",".","0","0",
          "0","\n","H","e","l","l","o"," ","<","c",">","t","h","e","r","e","<","/","c",">",
          "\n">>
      [] r = "vttNoText"  -> <<"W","E","B","V","T","T","\n","\n">>
      [] r = "emptyOut"   -> <<"\n">>
      [] OTHER            -> <<>>

\* The answers that deliver no payload: a rejected fetch, an error status, a
\* throw of execSync.
NoPayload == {"reject", "status404", "exit1", "maxBuffer"}

\* fetchCaptionTrack without its `segments.length === 0` throw.
CaptionErrorUnchecked(r) ==
    IF r = "reject" THEN "fetch failed"
    ELSE IF r = "status404" THEN "Caption track returned 404"
    ELSE IF Len(Payload(r)) = 0 THEN "Caption track returned empty response"
    ELSE Null

\* The error fetchCaptionTrack throws on an answer, Null when it returns segments.
CaptionError(r) ==
    IF r = "reject" THEN "fetch failed"
    ELSE IF r = "status404" THEN "Caption track returned 404"
    ELSE IF Len(Payload(r)) = 0 THEN "Caption track returned empty response"
    ELSE IF Len(parseTranscriptXml(Payload(r))) = 0 THEN "Could not parse caption XML"
    ELSE Null

\* The watch page: whether it carries the captcha marker, what the
\* ytInitialPlayerResponse extraction and the "captions": extraction find, and
\* whether "playabilityStatus": occurs.
Extractions == {"absent", "notJson", "noTracks", "tracks"}
HtmlPages ==
    {p \in [st : {"html"}, captcha : BOOLEAN, primary : Extractions,
            secondary : Extractions \ {"notJson"}, playability : BOOLEAN] :
        p.captcha => (p.primary = "absent" /\ p.secondary = "absent" /\ ~p.playability)}

\* Answers to the page request of fetchTranscriptFromPage.
PageResponses == {[st |-> "reject"], [st |-> "status429"]} \cup HtmlPages

\* The error fetchTranscriptFromPage throws before it looks for tracks, Null when
\* it goes on to the extractions.
PageError(p) ==
    IF p.st = "reject" THEN "fetch failed"
    ELSE IF p.st = "status429" THEN "YouTube page returned 429"
    ELSE IF p.captcha THEN "Rate limited (captcha)"
    ELSE Null

\* The two throws that end fetchTranscriptFromPage when no track was fetched.
PageNoTracksError(p) ==
    IF ~p.playability THEN "Video is unavailable"
    ELSE "Could not extract captions from page"

\* Outcomes of execSync(yt-dlp ...): a throw of execSync, or the tool's output.
YtDlpResults == {"exit1", "maxBuffer", "notJson", "noSources", "noUrl", "url"}

\* Outcomes of execSync(curl ...).
CurlResults == {"exit1", "maxBuffer", "emptyOut", "garbage", "xml", "vttText", "vttNoText"}

ExecTimeoutError == "spawnSync /bin/sh ETIMEDOUT"

\* The error Strategy C throws on the yt-dlp outcome, Null when a track URL was found.
YtDlpError(r) ==
    CASE r = "exit1"     -> "Command failed: yt-dlp"
      [] r = "maxBuffer" -> "spawnSync /bin/sh ENOBUFS"
      [] r = "notJson"   -> "Unexpected end of JSON input"
      [] r = "noSources" -> "yt-dlp: no subtitle sources found"
      [] r = "noUrl"     -> "yt-dlp: no subtitle track URL"
      [] OTHER           -> Null

\* The error Strategy C throws on the curl outcome, Null when it returns segments.
CurlError(fe, r) ==
    IF r = "exit1" THEN "Command failed: curl"
    ELSE IF r = "maxBuffer" THEN "spawnSync /bin/sh ENOBUFS"
    ELSE IF EmptyContent(Payload(r)) THEN "yt-dlp: subtitle URL returned empty"
    ELSE IF Len(YtDlpSegments(fe, Payload(r))) = 0
    THEN "yt-dlp: could not parse subtitle content"
    ELSE Null

NoBody == [st |-> "none"]

\* The last payload strategy k holds after answer r: `await response.text()` of
\* fetchCaptionTrack, the output of execSync(curl ...).
Received(k, r) ==
    IF r \in NoPayload THEN body ELSE [st |-> "received", by |-> k, content |-> Payload(r)]

(***************************************************************************)
(* The fallback orchestrator: getVideoTranscript (utils.ts), main (cli.mjs)*)
(***************************************************************************)
Strategies == <<"A", "B", "C">>
StrategySet == {"A", "B", "C"}

Index(k) == CHOOSE i \in 1..Len(Strategies) : Strategies[i] = k

\* The prefix each catch block gives its reason.
StrategyName(fe, k) ==
    IF fe = "cli"
    THEN CASE k = "A" -> "ANDROID" [] k = "B" -> "Page" [] OTHER -> "yt-dlp"
    ELSE CASE k = "A" -> "ANDROID API" [] k = "B" -> "Page scraping" [] OTHER -> "yt-dlp"

\* The reason without the strategy's name.
ReasonMessageOnly(fe, k, msg) == <<"", msg>>

\* `${name}: ${e.message}`
Reason(fe, k, msg) == <<StrategyName(fe, k), msg>>

\* Falls through to the last try block whichever strategy failed.
NextStrategySkips(k) == Strategies[Len(Strategies)]

\* The try block that follows the catch block of strategy k.
NextStrategy(k) == Strategies[Index(k) + 1]

\* Only the awaited strategy calls stand in a try block.
InTryBlockAwaitedOnly(k) == k \in {"A", "B"}

\* Every strategy call stands in a try block of its own.
InTryBlock(k) == k \in StrategySet

\* The first call a strategy makes: where it then waits, and for what.
FirstPc(k) == CASE k = "A" -> "A_player" [] k = "B" -> "B_page" [] OTHER -> "C_ytdlp"
FirstRequest(k) == CASE k = "A" -> "player" [] k = "B" -> "page" [] OTHER -> "ytdlp"

\* The call the main flow is blocked on at each position.
RequestAt(p) ==
    CASE p = "A_player" -> "player"
      [] p \in {"A_caption", "B_caption1", "B_caption2"} -> "captionTrack"
      [] p = "B_page"   -> "page"
      [] p = "C_ytdlp"  -> "ytdlp"
      [] p = "C_curl"   -> "curl"
      [] OTHER          -> "none"

\* Positions where the main flow awaits a promise, so that other continuations
\* (fetchVideoTitle's) can run. execSync blocks the event loop.
AwaitPcs == {"A_player", "A_caption", "B_page", "B_caption1", "B_caption2", "awaitTitle"}
ExecPcs == {"C_ytdlp", "C_curl"}

\* The calls made, in order, by the synchronous start of the function:
\* fetchVideoTitle(videoId) and then the first strategy.
StartRequests == <<Request("oembed"), Request(FirstRequest("A"))>>

\* The title lookup made anew in each later try block.
FallbackRequestsWithTitle(k) == <<Request("oembed"), Request(FirstRequest(k))>>

\* The requests a later strategy issues when it is entered.
FallbackRequests(k) == <<Request(FirstRequest(k))>>

\* cli.mjs: flags and options.
Dashes == <<"-","-">>
TimestampsFlag == <<"-","-","t","i","m","e","s","t","a","m","p","s">>
JsonFlag == <<"-","-","j","s","o","n">>
RECURSIVE Filter(_, _)
Filter(seq, keepFlags) ==
    IF seq = <<>> THEN <<>>
    ELSE IF StartsWithAt(Head(seq), 1, Dashes) = keepFlags
         THEN <<Head(seq)>> \o Filter(Tail(seq), keepFlags)
         ELSE Filter(Tail(seq), keepFlags)
Flags(args) == Filter(args, TRUE)
Positional(args) == Filter(args, FALSE)
HasFlag(args, f) == \E i \in 1..Len(Flags(args)) : Flags(args)[i] = f

\* options.timestamps: the Raycast command passes no options.
Timestamps == frontend = "cli" /\ HasFlag(input, TimestampsFlag)
JsonOutput == frontend = "cli" /\ HasFlag(input, JsonFlag)

\* output() of cli.mjs: the one console.log call it makes.
Output(segs, t, method) ==
    IF JsonOutput
    THEN [json |-> TRUE, videoId |-> videoId, title |-> t, method |-> method,
          segmentCount |-> Len(segs), segments |-> segs]
    ELSE [json |-> FALSE, videoId |-> videoId, title |-> t, method |-> method,
          text |-> formatSegments(segs, Timestamps)]

Method(k) == CASE k = "A" -> "android" [] k = "B" -> "page" [] OTHER -> "yt-dlp"

\* The strategy being tried.
Current == started[Len(started)]

\* main() without its process.exit(1).
ExitCodeForNoFailureExit(outcome) ==
    CASE outcome = "invalid" -> 2
      [] OTHER               -> 0

\* The exit codes of cli.mjs: process.exit(2), process.exit(1), and the end of
\* main() after output().
ExitCodeFor(outcome) ==
    CASE outcome = "invalid" -> 2
      [] outcome = "failed"  -> 1
      [] OTHER               -> 0

\* `if (!videoId)` of each front end: the orchestrator is called only with an
\* identifier extractVideoId returned.
RaycastAccepts(id) == id # Null
\* cli.mjs without its `if (!videoId)` exit.
CliAcceptsAnything(id) == TRUE
CliAccepts(id) == id # Null

\* What leaves the function as a throw. getVideoTranscript throws to its caller;
\* main() of cli.mjs prints to stderr and ends the process.
Escape(err) ==
    /\ result' = err
    /\ IF frontend = "cli"
       THEN /\ stderr' = Append(stderr, err)
            /\ exitCode' = <<ExitCodeFor("failed")>>
            /\ pc' = "exited"
       ELSE /\ pc' = "threw"
            /\ UNCHANGED <<stderr, exitCode>>

\* Strategy k threw msg: the catch block records the reason and control falls
\* through to the next try block, or to the final throw after the last one.
FailStrategy(k, msg) ==
    /\ thrown' = Append(thrown, <<k, msg>>)
    /\ page' = [st |-> "none"]
    /\ IF ~InTryBlock(k)
       THEN /\ strat' = [strat EXCEPT ![k] = "failed"]
            /\ net' = "none"
            /\ UNCHANGED <<errors, started, reqLog>>
            /\ Escape([st |-> "error", kind |-> "uncaught", message |-> msg])
       ELSE IF k # Strategies[Len(Strategies)]
       THEN /\ errors' = Append(errors, Reason(frontend, k, msg))
            /\ strat' = [strat EXCEPT ![k] = "failed", ![NextStrategy(k)] = "running"]
            /\ started' = Append(started, NextStrategy(k))
            /\ pc' = FirstPc(NextStrategy(k))
            /\ net' = "pending"
            /\ reqLog' = reqLog \o FallbackRequests(NextStrategy(k))
            /\ UNCHANGED <<result, stderr, exitCode>>
       ELSE /\ errors' = Append(errors, Reason(frontend, k, msg))
            /\ strat' = [strat EXCEPT ![k] = "failed"]
            /\ net' = "none"
            /\ UNCHANGED <<started, reqLog>>
            /\ Escape([st |-> "error", kind |-> "aggregate", reasons |-> errors'])
    /\ UNCHANGED <<pureVars, frontend, input, videoId, title, segments, stdout, markdown>>

\* Strategy k returned segs: the try block goes on to `await titlePromise`.
SucceedStrategy(k, segs) ==
    /\ strat' = [strat EXCEPT ![k] = "succeeded"]
    /\ segments' = segs
    /\ pc' = "awaitTitle"
    /\ net' = "none"
    /\ page' = [st |-> "none"]
    /\ UNCHANGED <<pureVars, frontend, input, videoId, title, started, errors, thrown,
                   reqLog, result, stdout, stderr, exitCode, markdown>>

\* The strategy issues its next call (kind) and waits for it at position p.
Continue(p, kind, pg) ==
    /\ pc' = p
    /\ net' = "pending"
    /\ reqLog' = Append(reqLog, Request(kind))
    /\ page' = pg
    /\ UNCHANGED <<pureVars, frontend, input, videoId, title, strat, started, errors,
                   thrown, segments, result, stdout, stderr, exitCode, markdown>>

\* getVideoTranscript(id) / main(): up to the first await. fetchVideoTitle runs
\* to its fetch, then fetchTranscriptFromAndroid runs to its fetch.
Invoke(id) ==
    /\ videoId' = id
    /\ title' = [st |-> "pending"]
    /\ strat' = [strat EXCEPT !["A"] = "running"]
    /\ started' = <<"A">>
    /\ pc' = FirstPc("A")
    /\ net' = "pending"
    /\ reqLog' = reqLog \o StartRequests
    /\ UNCHANGED <<pureVars, frontend, input, errors, thrown, page, body, segments,
                   result, stdout, stderr, exitCode, markdown>>

\* A front end ends without calling the orchestrator.
Reject(md, err, code) ==
    /\ markdown' = md
    /\ stderr' = IF err = Null THEN stderr ELSE Append(stderr, err)
    /\ exitCode' = code
    /\ pc' = IF frontend = "cli" THEN "exited" ELSE "shown"
    /\ UNCHANGED <<pureVars, frontend, input, videoId, title, strat, started, errors,
                   thrown, net, page, body, segments, reqLog, result, stdout>>

\* Command.fetchTranscript up to its first await after the clipboard read.
RaycastCommand ==
    /\ frontend = "raycast" /\ pc = "rc_start"
    /\ LET videoUrl == IF /\ input.st = "text"
                          /\ input.text # <<>>
                          /\ extractVideoId(input.text) # Null
                       THEN input.text ELSE Null
       IN  IF videoUrl = Null
           THEN Reject([st |-> "noUrlFound"], Null, exitCode)
           ELSE IF ~RaycastAccepts(extractVideoId(videoUrl))
           THEN Reject([st |-> "invalidUrl"], Null, exitCode)
           ELSE Invoke(extractVideoId(videoUrl))

\* Command.fetchTranscript after getVideoTranscript has returned or thrown.
RaycastShow ==
    /\ frontend = "raycast" /\ pc \in {"returned", "threw"}
    /\ markdown' = IF result.st = "ok"
                   THEN [st |-> "transcript", transcript |-> result.transcript,
                         videoId |-> videoId, title |-> result.title]
                   ELSE [st |-> "error", message |-> result]
    /\ pc' = "shown"
    /\ UNCHANGED <<pureVars, frontend, input, videoId, title, strat, started, errors,
                   thrown, net, page, body, segments, reqLog, result, stdout, stderr,
                   exitCode>>

\* cli.mjs from its first line to the first await of main().
CliStart ==
    /\ frontend = "cli" /\ pc = "cli_start"
    /\ IF Len(Positional(input)) = 0
       THEN Reject(markdown, "Usage", <<ExitCodeFor("invalid")>>)
       ELSE IF ~CliAccepts(extractVideoId(Positional(input)[1]))
       THEN Reject(markdown, "Invalid YouTube URL or ID", <<ExitCodeFor("invalid")>>)
       ELSE Invoke(extractVideoId(Positional(input)[1]))

\* The oEmbed request is answered and fetchVideoTitle runs to its end. It can
\* run only while the main flow is at an await.
TitleSettles ==
    /\ title.st = "pending" /\ pc \in AwaitPcs
    /\ \E r \in TitleResponses : title' = FetchVideoTitleSettled(r, videoId)
    /\ UNCHANGED <<pureVars, frontend, input, videoId, pc, strat, started, errors,
                   thrown, net, page, body, segments, reqLog, result, stdout, stderr,
                   exitCode, markdown>>

\* The oEmbed endpoint never answers.
TitleHangs ==
    /\ title.st = "pending" /\ pc \in AwaitPcs \cup ExecPcs
    /\ title' = [st |-> "hung"]
    /\ UNCHANGED <<pureVars, frontend, input, videoId, pc, strat, started, errors,
                   thrown, net, page, body, segments, reqLog, result, stdout, stderr,
                   exitCode, markdown>>

\* The collaborator of the call the main flow waits for never answers.
Hangs ==
    /\ net = "pending" /\ pc \in AwaitPcs \cup ExecPcs
    /\ net' = "hung"
    /\ UNCHANGED <<pureVars, frontend, input, videoId, pc, title, strat, started,
                   errors, thrown, page, body, segments, reqLog, result, stdout,
                   stderr, exitCode, markdown>>

\* The timeout of the call the main flow waits for expires: execSync kills the
\* child and throws. Enabled only for calls made with a timeout.
TimeoutFires ==
    /\ net = "hung" /\ pc \in AwaitPcs \cup ExecPcs
    /\ TimeoutOf(RequestAt(pc)) # NoTimeout
    /\ FailStrategy(Current, ExecTimeoutError)
    /\ UNCHANGED body

\* fetchTranscriptFromAndroid after its player request is answered.
PlayerAnswers ==
    /\ pc = "A_player" /\ net = "pending"
    /\ \E r \in PlayerResponses :
          IF AndroidPlayerError(frontend, r) # Null
          THEN FailStrategy("A", AndroidPlayerError(frontend, r))
          ELSE Continue("A_caption", "captionTrack", page)
    /\ UNCHANGED body

\* fetchCaptionTrack, called by fetchTranscriptFromAndroid, after its answer.
AndroidCaptionAnswers ==
    /\ pc = "A_caption" /\ net = "pending"
    /\ \E r \in CaptionResponses :
          /\ body' = Received("A", r)
          /\ IF CaptionError(r) # Null
             THEN FailStrategy("A", CaptionError(r))
             ELSE SucceedStrategy("A", parseTranscriptXml(Payload(r)))

\* fetchTranscriptFromPage after its page request is answered.
PageAnswers ==
    /\ pc = "B_page" /\ net = "pending"
    /\ \E p \in PageResponses :
          IF PageError(p) # Null THEN FailStrategy("B", PageError(p))
          ELSE IF p.primary = "tracks" THEN Continue("B_caption1", "captionTrack", p)
          ELSE IF p.secondary = "tracks" THEN Continue("B_caption2", "captionTrack", p)
          ELSE FailStrategy("B", PageNoTracksError(p))
    /\ UNCHANGED body

\* fetchCaptionTrack inside the try of the ytInitialPlayerResponse extraction:
\* its throw is caught there and the "captions": extraction is tried.
PageCaptionAnswers ==
    /\ pc = "B_caption1" /\ net = "pending"
    /\ \E r \in CaptionResponses :
          /\ body' = Received("B", r)
          /\ IF CaptionError(r) = Null
             THEN SucceedStrategy("B", parseTranscriptXml(Payload(r)))
             ELSE IF page.secondary = "tracks"
             THEN Continue("B_caption2", "captionTrack", page)
             ELSE FailStrategy("B", PageNoTracksError(page))

\* fetchCaptionTrack inside the try of the "captions": extraction: its throw is
\* caught there and the function ends with one of its two final throws.
PageFallbackCaptionAnswers ==
    /\ pc = "B_caption2" /\ net = "pending"
    /\ \E r \in CaptionResponses :
          /\ body' = Received("B", r)
          /\ IF CaptionError(r) = Null
             THEN SucceedStrategy("B", parseTranscriptXml(Payload(r)))
             ELSE FailStrategy("B", PageNoTracksError(page))

\* fetchTranscriptFromYtDlp after execSync(yt-dlp ...) has returned or thrown.
YtDlpReturns ==
    /\ pc = "C_ytdlp" /\ net = "pending"
    /\ \E r \in YtDlpResults :
          IF YtDlpError(r) # Null THEN FailStrategy("C", YtDlpError(r))
          ELSE Continue("C_curl", "curl", page)
    /\ UNCHANGED body

\* fetchTranscriptFromYtDlp after execSync(curl ...) has returned or thrown.
CurlReturns ==
    /\ pc = "C_curl" /\ net = "pending"
    /\ \E r \in CurlResults :
          /\ body' = Received("C", r)
          /\ IF CurlError(frontend, r) # Null
             THEN FailStrategy("C", CurlError(frontend, r))
             ELSE SucceedStrategy("C", YtDlpSegments(frontend, Payload(r)))

\* `const title = await titlePromise; return {...}` of the try block whose
\* strategy returned; in cli.mjs `output(segments, title, method); return`.
ReturnTranscript ==
    /\ pc = "awaitTitle" /\ title.st = "resolved"
    /\ result' = [st |-> "ok", by |-> Current, title |-> title.val,
                  transcript |-> formatSegments(segments, Timestamps)]
    /\ IF frontend = "cli"
       THEN /\ stdout' = Append(stdout, Output(segments, title.val, Method(Current)))
            /\ exitCode' = <<ExitCodeFor("ok")>>
            /\ pc' = "exited"
       ELSE /\ pc' = "returned"
            /\ UNCHANGED <<stdout, exitCode>>
    /\ UNCHANGED <<pureVars, frontend, input, videoId, title, strat, started, errors,
                   thrown, net, page, body, segments, reqLog, stderr, markdown>>

(***************************************************************************)
(* Runs of the two front ends                                              *)
(***************************************************************************)
WatchUrl == Https \o Www \o Watch \o ValidId
ShortText == <<"s","h","o","r","t">>
ShortIdUrl == YoutuBe \o <<"a","b","c">>

\* Outcomes of Clipboard.readText().
Clipboards ==
    {[st |-> "readFails"]} \cup
    {[st |-> "text", text |-> t] : t \in {<<>>, ShortText, ValidId, WatchUrl}}

\* process.argv.slice(2)
ArgLists ==
    { <<>>, <<JsonFlag>>, <<ShortText>>, <<DashId>>, <<ValidId>>,
      <<WatchUrl, TimestampsFlag>>, <<JsonFlag, ValidId>>, <<ShortIdUrl>> }

Init ==
    /\ ExtractParked /\ ParseParked /\ SubtitleParked /\ PickParked /\ ExecParked
    /\ UnitParked
    /\ \/ frontend = "raycast" /\ input \in Clipboards /\ pc = "rc_start"
       \/ frontend = "cli" /\ input \in ArgLists /\ pc = "cli_start"
    /\ videoId = Null
    /\ title = [st |-> "none"]
    /\ strat = [k \in StrategySet |-> "idle"]
    /\ started = <<>> /\ errors = <<>> /\ thrown = <<>>
    /\ net = "none" /\ page = [st |-> "none"] /\ body = NoBody
    /\ segments = <<>> /\ reqLog = <<>>
    /\ result = [st |-> "none"]
    /\ stdout = <<>> /\ stderr = <<>> /\ exitCode = NoExit
    /\ markdown = [st |-> "none"]

Next ==
    \/ RaycastCommand \/ RaycastShow \/ CliStart
    \/ TitleSettles \/ TitleHangs \/ Hangs \/ TimeoutFires
    \/ PlayerAnswers \/ AndroidCaptionAnswers
    \/ PageAnswers \/ PageCaptionAnswers \/ PageFallbackCaptionAnswers
    \/ YtDlpReturns \/ CurlReturns
    \/ ReturnTranscript

Spec == Init /\ [][Next]_vars

(***************************************************************************)
(* Properties of extractVideoId (checked under SpecExtract)                *)
(***************************************************************************)
IsIdString(s) == \A i \in 1..Len(s) : s[i] \in IdChars

\* s is one URL of a supported shape that carries identifier id.
CarriesId(s, id) ==
    \E lead \in Leads, sch \in Schemes, w \in WwwOpts, k \in 1..Len(UrlPatterns),
       suf \in Suffixes : s = ShapeUrl(lead, sch, w, UrlPatterns[k], id, suf)

\* No host/path literal of a supported shape occurs anywhere in s.
NoUrlShape(s) ==
    \A k \in 1..Len(UrlPatterns), i \in 1..Len(s) : ~StartsWithAt(s, i, UrlPatterns[k])

\* C9: a URL of any of the four shapes (with or without scheme and www.) that
\* carries an 11-character identifier yields that identifier; a string of exactly
\* 11 identifier characters yields itself; a string of another length with no URL
\* shape yields null.
C9_ExtractRecognizesShapes ==
    xOut # NotRun =>
        /\ \A id \in IdCandidates :
              (Len(id) = IdLen /\ CarriesId(xUrl, id)) => xOut = id
        /\ (Len(xUrl) = IdLen /\ IsIdString(xUrl)) => xOut = xUrl
        /\ (Len(xUrl) # IdLen /\ NoUrlShape(xUrl)) => xOut = Null

\* An embed URL with http:// and www. and a trailing parameter has been resolved
\* to the 11-character identifier it carries.
C9_Witness ==
    /\ xOut # NotRun
    /\ \E id \in IdCandidates :
          /\ Len(id) = IdLen
          /\ xUrl = ShapeUrl(<<>>, Http, Www, Embed, id, <<"&","t","=","1","s">>)
          /\ xOut = id

\* C10: every non-null value returned by extractVideoId is exactly 11 characters,
\* each alphanumeric, hyphen or underscore.
C10_ExtractedIsVideoIdentifier ==
    (xOut # NotRun /\ xOut # Null) => (Len(xOut) = IdLen /\ IsIdString(xOut))

\* C11: extractVideoId returns a string or null for every input, and an identifier
\* it returned, handed to it again, comes back unchanged.
C11_ExtractTotalIdempotent ==
    /\ xOut # NotRun => (xOut = Null \/ IsIdString(xOut))
    /\ xAgain # NotRun => (xAgain # Null /\ xAgain = xOut)

(***************************************************************************)
(* Properties of parseTranscriptXml and formatSegments (checked under      *)
(* SpecParse)                                                              *)
(***************************************************************************)
\* The kinds of the pieces of the payload, in payload order.
KindsOf(parts) == [k \in 1..Len(parts) |-> Pieces[parts[k]].kind]

\* The segments a reader takes from the pieces of the given kind, in payload
\* order, pieces without text left out.
SegmentsOfKind(parts, kind) ==
    LET held == SelectSeq(parts, LAMBDA n : Pieces[n].kind = kind /\ Pieces[n].text # <<>>)
    IN  [k \in 1..Len(held) |->
            [text |-> Pieces[held[k]].text, start |-> Pieces[held[k]].start,
             duration |-> Pieces[held[k]].duration]]

HasKind(parts, kind) == \E k \in 1..Len(parts) : Pieces[parts[k]].kind = kind

\* C12: parseTranscriptXml returns a sequence of segments for every payload, the
\* empty payload, text that is no XML, unclosed elements and XML without caption
\* elements included, and the empty sequence when no piece of the payload holds a
\* caption.
C12_ParserTotal ==
    parsed.st = "returned" =>
        /\ \A k \in 1..Len(parsed.val) :
              /\ parsed.val[k].text # <<>>
              /\ parsed.val[k].start \in Int /\ parsed.val[k].duration \in Int
        /\ (\A k \in 1..Len(xmlParts) :
                Pieces[xmlParts[k]].kind \in {"other", "unclosedText", "unclosedP"})
              => parsed.val = <<>>

\* A payload of an unclosed element followed by text that is no XML has been
\* parsed to the empty sequence.
C12_Witness ==
    /\ KindsOf(xmlParts) = <<"unclosedText", "other">>
    /\ parsed.st = "returned" /\ parsed.val = <<>>

C14_NestedParagraphs ==
    (/\ parsed.st = "returned"
     /\ ~HasKind(xmlParts, "textBare") /\ ~HasKind(xmlParts, "unclosedP")
     /\ SegmentsOfKind(xmlParts, "text") = <<>>)
        => parsed.val = SegmentsOfKind(xmlParts, "p")

\* The same paragraph twice has been parsed to two equal segments.
C14_Witness ==
    /\ Len(xmlParts) = 2 /\ xmlParts[1] = xmlParts[2]
    /\ parsed.st = "returned" /\ Len(parsed.val) = 2
    /\ parsed.val[1] = parsed.val[2]
    /\ parsed.val[1].text = <<"o","n","e"," ","t","w","o">>

\* The text of a segment as a reader sees it: entities resolved, white space
\* runs as one space, none at the ends.
ReadText(text) ==
    LET t == IF text = <<"i","t","&","#","3","9",";","s","\n"," ","&","a","m","p",";"," ",
                 "g","r","e","a","t"," ">>
             THEN <<"i","t","'","s","\n"," ","&"," ","g","r","e","a","t"," ">> ELSE text
        shown == SelectSeq([k \in 1..Len(t) |-> k],
                           LAMBDA k : \/ t[k] \notin WhiteSpace
                                      \/ /\ k > 1 /\ t[k - 1] \notin WhiteSpace
                                         /\ \E n \in (k + 1)..Len(t) : t[n] \notin WhiteSpace)
    IN  [j \in 1..Len(shown) |-> IF t[shown[j]] \in WhiteSpace THEN " " ELSE t[shown[j]]]

\* A whole number below 100 in two digits.
TwoDigits(n) == <<Digits10[(n \div 10) + 1], Digits10[(n % 10) + 1]>>

\* "[MM:SS] " for a start time in thousandths of a second, below 100 minutes.
Stamp(start) ==
    <<"[">> \o TwoDigits((start \div 1000) \div 60) \o <<":">>
        \o TwoDigits((start \div 1000) % 60) \o <<"]", " ">>

\* The payload is the element of Hello at 0 and the element of World at 2.
HelloThenWorld ==
    /\ Len(xmlParts) = 2
    /\ Pieces[xmlParts[1]].text = <<"H","e","l","l","o">> /\ Pieces[xmlParts[1]].start = 0
    /\ Pieces[xmlParts[2]].text = <<"W","o","r","l","d">> /\ Pieces[xmlParts[2]].start = 2000

\* C20: with timestamps the transcript has one line per segment, in segment
\* order, "[MM:SS] " of the segment's start and its decoded, trimmed text; without
\* them it is the decoded texts with single spaces between them and none at the
\* ends. The payload of Hello at 0 and World at 2 gives "[00:00] Hello\n[00:02]
\* World" and "Hello World".
C20_JoinPolicies ==
    transcript # NotRun =>
        /\ options.timestamps =>
              /\ Len(split(transcript, 1, "\n")) = Len(parsed.val)
              /\ \A k \in 1..Len(parsed.val) :
                    split(transcript, 1, "\n")[k]
                        = Stamp(parsed.val[k].start) \o ReadText(parsed.val[k].text)
        /\ ~options.timestamps =>
              transcript = join([k \in 1..Len(parsed.val) |-> ReadText(parsed.val[k].text)],
                                <<" ">>)
        /\ HelloThenWorld =>
              transcript = IF options.timestamps THEN <<"[","0","0",":","0","0","]"," ","H",
                  "e","l","l","o","\n","[","0","0",":","0","2","]"," ","W","o","r","l","d">>
                           ELSE <<"H","e","l","l","o"," ","W","o","r","l","d">>

\* The payload of Hello and World has been rendered with timestamps.
C20_Witness ==
    /\ HelloThenWorld /\ options.timestamps /\ transcript # NotRun
    /\ transcript = <<"[","0","0",":","0","0","]"," ","H","e","l","l","o","\n","[","0","0",
        ":","0","2","]"," ","W","o","r","l","d">>

(***************************************************************************)
(* Properties of the plain-subtitle path (checked under SpecSubtitle)      *)
(***************************************************************************)
\* The content is a subtitle file: the header line and cue lines behind it.
IsSubtitleFile == StartsWithAt(subResp, 1, Webvtt \o <<"\n">>) \/ subResp = Webvtt

\* The texts a reader takes from the lines behind the header, line by line.
CueTexts ==
    LET lines == Tail(split(subResp, 1, "\n"))
    IN  [k \in 1..Len(lines) |->
            SubtitleCues[CHOOSE n \in 1..Len(SubtitleCues) :
                             SubtitleCues[n].src = lines[k]].text]

\* The lines that carry a text no line before them carries.
FirstOccurrences ==
    {k \in 1..Len(CueTexts) :
        CueTexts[k] # <<>> /\ \A j \in 1..(k - 1) : CueTexts[j] # CueTexts[k]}

\* The texts of those lines in file order, as segments without timing.
FirstTexts ==
    [i \in 1..Cardinality(FirstOccurrences) |->
        [text |-> CueTexts[CHOOSE k \in FirstOccurrences :
                               Cardinality({j \in FirstOccurrences : j < k}) = i - 1],
         start |-> 0, duration |-> 0]]

\* C15: of a subtitle file the plain-subtitle path keeps no header, Kind:,
\* Language:, NOTE, all-digit, timing or blank line; it returns the text of every
\* other line without its markup, once, at the place of its first occurrence
\* and in file order, with start 0 and duration 0, so that no two segments have
\* equal text; a file without such a line is a failure.
C15_PlainSubtitleDedup ==
    (textSegments.st # "notrun" /\ IsSubtitleFile) =>
        /\ textSegments.val = FirstTexts
        /\ textSegments.st = IF FirstTexts = <<>> THEN "threw" ELSE "returned"
        /\ \A i, j \in 1..Len(textSegments.val) :
              i # j => textSegments.val[i].text # textSegments.val[j].text

\* A file whose third line repeats the text of its first, another text between
\* them, has given two segments.
C15_Witness ==
    /\ IsSubtitleFile /\ Len(CueTexts) = 3
    /\ CueTexts[1] = CueTexts[3] /\ CueTexts[1] # <<>> /\ CueTexts[2] # CueTexts[1]
    /\ CueTexts[2] # <<>>
    /\ textSegments.st = "returned" /\ Len(textSegments.val) = 2
    /\ textSegments.val[1].text = CueTexts[1]

\* C16: the plain-subtitle path compares decoded text: no two segments it returns
\* are equal after entity decoding.
C16_DedupOnDecodedText ==
    (textSegments.st = "returned" /\ IsSubtitleFile) =>
        \A i, j \in 1..Len(textSegments.val) :
            i # j => trim(decodeHtmlEntities(textSegments.val[i].text))
                         # trim(decodeHtmlEntities(textSegments.val[j].text))

\* The entity received is the k-th of EntityContents.
IsEntityContent(k) == subResp = EntityContents[k].content

\* "[00:00] "
StampZero == <<"[","0","0",":","0","0","]"," ">>

\* C21: the segments Strategy C's parsing returns carry their text as it stands
\* in the content, entities still encoded, in the tag-per-line dialect, the
\* nested-paragraph dialect and the plain-subtitle path alike; the transcript
\* made of them has the entities decoded and white space runs collapsed, with
\* timestamps and without: no named entity and no two white space characters
\* in a row are left in it, and "it&#39;s &amp; great" has become
\* "it's & great".
C21_DecodeAtJoin ==
    /\ \A k \in 1..Len(EntityContents) :
          IsEntityContent(k) =>
              /\ textSegments.st # "notrun" =>
                    /\ textSegments.st = "returned" /\ Len(textSegments.val) = 1
                    /\ textSegments.val[1].text = EntityContents[k].raw
              /\ transcript # NotRun =>
                    transcript = IF options.timestamps
                                 THEN StampZero \o EntityContents[k].shown
                                 ELSE EntityContents[k].shown
    /\ transcript # NotRun =>
          /\ \A k \in 1..Len(NamedEntities) : ~includes(transcript, NamedEntities[k][1])
          /\ \A i \in 1..(Len(transcript) - 1) :
                ~(transcript[i] \in WhiteSpace /\ transcript[i + 1] \in WhiteSpace)

\* The content of each format has been parsed and rendered.
C21_Witness ==
    /\ IsEntityContent(2) /\ transcript # NotRun /\ options.timestamps
    /\ textSegments.val[1].text = EntityContents[2].raw
    /\ transcript = StampZero \o EntityContents[2].shown

\* C29: a transcript that getVideoTranscript returns is not empty: without
\* timestamps the joined text has a character, with timestamps each line has text
\* after its "[MM:SS] ", also for segments whose raw text is non-blank before
\* decoding only, like "&nbsp;".
C29_TranscriptNotEmpty ==
    transcript # NotRun =>
        IF options.timestamps
        THEN \A k \in 1..Len(split(transcript, 1, "\n")) :
                 Len(split(transcript, 1, "\n")[k]) > Len(StampZero)
        ELSE Len(transcript) > 0

\* The segment "&nbsp;" was returned by Strategy C and rendered as the empty
\* transcript.
C29_BlankAfterDecoding ==
    /\ textSegments.st = "returned" /\ Len(textSegments.val) = 1
    /\ textSegments.val[1].text = <<"&","n","b","s","p",";">>
    /\ transcript # NotRun /\ transcript = <<>>

(***************************************************************************)
(* Properties of the two pipelines side by side (checked under SpecCompare)*)
(***************************************************************************)
\* C30: on the same subtitle content Strategy C of cli.mjs and Strategy C of
\* utils.ts end alike, both with the same segments or both with the same error,
\* content in the plain subtitle format included.
C30_SamePipeline ==
    (textSegments.st # "notrun" /\ cliSegments.st # "notrun") => cliSegments = textSegments

\* On content the XML expressions read, the two agree.
C30_SameOnXml ==
    (/\ textSegments.st # "notrun" /\ cliSegments.st # "notrun"
     /\ Len(parseTranscriptXml(subResp)) > 0)
        => cliSegments = textSegments

\* utils.ts returned the lines of a subtitle file, cli.mjs threw on the same file.
C30_VttOnlyInLibrary ==
    /\ includes(subResp, Webvtt)
    /\ textSegments.st = "returned" /\ cliSegments.st = "threw"

\* On the list [srv2, srv3] utils.ts has chosen srv2 and cli.mjs srv3.
C30_EncodingsDiffer ==
    /\ trackLib.st = "chosen" /\ trackCli.st = "chosen"
    /\ trackLib.ext = "srv2" /\ trackCli.ext = "srv3"

(***************************************************************************)
(* Properties of pickTrackUrl (checked under SpecPick)                     *)
(***************************************************************************)
\* The positions of the tracks whose language code is "en" or begins with it.
EnglishPositions ==
    {i \in 1..Len(tracks) :
        LET code == tracks[i].languageCode
        IN  Len(code) >= 2 /\ code[1] = "e" /\ code[2] = "n"}

\* C17: every call of pickTrackUrl on a list returns the URL of the first track
\* whose language code is "en" or starts with "en", wherever it stands, and the
\* URL of the first track when there is none; all calls on the list agree.
C17_TrackSelection ==
    /\ \A k \in 1..Len(picked) :
          IF EnglishPositions = {}
          THEN picked[k] = tracks[1].baseUrl
          ELSE \E i \in EnglishPositions :
                  /\ \A j \in EnglishPositions : i <= j
                  /\ picked[k] = tracks[i].baseUrl
    /\ \A k, n \in 1..Len(picked) : picked[k] = picked[n]

\* Two calls on a list whose only English track, a regional one, stands last
\* have both returned its URL.
C17_Witness ==
    /\ Len(tracks) = 3 /\ EnglishPositions = {3}
    /\ tracks[3].languageCode = <<"e","n","-","U","S">>
    /\ Len(picked) = 2
    /\ picked[1] = tracks[3].baseUrl /\ picked[2] = tracks[3].baseUrl

(***************************************************************************)
(* Properties of the subprocess calls (checked under SpecExec)             *)
(***************************************************************************)
\* The string the call is to hand to the program: the watch URL of the
\* identifier, or the subtitle URL.
IntendedArgument ==
    IF execCall.kind = "ytdlp" THEN WatchUrlOf(execCall.arg) ELSE execCall.arg

\* C19: every subprocess call of Strategy C runs one command, whose last argument
\* is the watch URL or the subtitle URL character for character, behind the
\* argument terminator; nothing of the string is expanded or run by the shell.
C19_ArgumentBoundary ==
    ran.st = "done" =>
        /\ ~ran.sh.error /\ ~ran.sh.expanded /\ ran.sh.substituted = <<>>
        /\ Len(ran.sh.commands) = 1
        /\ LET argv == ran.sh.commands[1]
           IN  /\ Len(argv) >= 3
               /\ argv[Len(argv)] = IntendedArgument
               /\ argv[Len(argv) - 1] = <<"-", "-">>

(***************************************************************************)
(* Properties of the orchestrator and the front ends (checked under Spec)  *)
(***************************************************************************)
Failed == {k \in StrategySet : strat[k] = "failed"}
Succeeded == {k \in StrategySet : strat[k] = "succeeded"}
Running == {k \in StrategySet : strat[k] = "running"}

\* The names the catch blocks of utils.ts and of cli.mjs give the strategies.
NamesInSource ==
    IF frontend = "cli" THEN <<"ANDROID", "Page", "yt-dlp">>
    ELSE <<"ANDROID API", "Page scraping", "yt-dlp">>

\* The front end's input is not recognized by the identifier extractor.
Unrecognized ==
    IF frontend = "cli"
    THEN Len(Positional(input)) = 0 \/ extractVideoId(Positional(input)[1]) = Null
    ELSE input.st # "text" \/ extractVideoId(input.text) = Null

\* C1: the strategies started are a prefix of <<A, B, C>>, each started once; B is
\* started only after A has failed and C only after B has failed; at most one
\* strategy is in progress; after a success no later strategy is started.
C1_StrategyOrder ==
    /\ Len(started) <= Len(Strategies)
    /\ \A i \in 1..Len(started) : started[i] = Strategies[i]
    /\ \A k \in StrategySet : strat[k] # "idle" <=> Index(k) <= Len(started)
    /\ Cardinality(Running) <= 1
    /\ \A i \in 2..Len(Strategies) :
          strat[Strategies[i]] # "idle" => strat[Strategies[i - 1]] = "failed"
    /\ \A k \in Succeeded : Running = {} /\ Len(started) = Index(k)

\* All three strategies were started in turn and the last one succeeded.
C1_Witness == started = Strategies /\ strat["C"] = "succeeded" /\ result.st = "ok"

\* C2: the aggregate error is raised exactly when all three strategies have
\* failed; it then holds three reasons, in the order A, B, C, each the strategy's
\* name with the message that strategy threw; strategy k runs with exactly k-1
\* reasons recorded.
C2_AggregateError ==
    /\ result.st = "error" <=> Failed = StrategySet
    /\ result.st = "error" =>
          /\ result.kind = "aggregate"
          /\ Len(result.reasons) = Len(Strategies) /\ Len(thrown) = Len(Strategies)
          /\ \A i \in 1..Len(Strategies) :
                /\ thrown[i][1] = Strategies[i]
                /\ result.reasons[i] = <<NamesInSource[i], thrown[i][2]>>
    /\ \A k \in Running : Len(errors) = Index(k) - 1

\* getVideoTranscript threw its aggregate error after a page without captions
\* and a yt-dlp run that timed out.
C2_Witness ==
    /\ frontend = "raycast" /\ result.st = "error"
    /\ thrown[2][2] = "Video is unavailable"
    /\ thrown[3][2] = ExecTimeoutError

\* C3: one title lookup per invocation, issued before strategy A's first request
\* and never again on a fallback; the title of the result is the outcome of that
\* lookup.
C3_SingleTitleLookup ==
    /\ Cardinality({i \in 1..Len(reqLog) : reqLog[i].kind = "oembed"})
          = IF started = <<>> THEN 0 ELSE 1
    /\ reqLog # <<>> => reqLog[1].kind = "oembed"
    /\ result.st = "ok" =>
          /\ title.st = "resolved"
          /\ result.title = IF title.outcome = "title" THEN <<"Some Title">>
                            ELSE <<"YouTube Video ", videoId>>

\* The title lookup is still unanswered while strategy C, reached after two
\* fallbacks, has returned its segments.
C3_Witness ==
    /\ strat["C"] = "succeeded" /\ pc = "awaitTitle" /\ title.st = "pending"
    /\ Len(reqLog) >= 4

\* C4: a failed title lookup resolves to the placeholder built from the
\* identifier; it adds no reason and does not turn a strategy's success into a
\* failure: a finished invocation in which a strategy succeeded returned that
\* strategy's segments.
C4_TitleFailureNotFatal ==
    /\ (title.st = "resolved" /\ title.outcome # "title") =>
          title.val = <<"YouTube Video ", videoId>>
    /\ title.st \in {"none", "pending", "hung", "resolved"}
    /\ Len(errors) = Cardinality(Failed)
    /\ result.st = "error" => Succeeded = {}
    /\ (pc \in {"returned", "exited", "shown"} /\ Succeeded # {}) =>
          /\ result.st = "ok" /\ result.by \in Succeeded
          /\ result.transcript = formatSegments(segments, Timestamps)
          /\ Len(segments) > 0
          /\ result.title = title.val

\* Strategy B succeeded and the result carries the placeholder, the title request
\* having been rejected.
C4_Witness ==
    /\ result.st = "ok" /\ result.by = "B"
    /\ title.outcome = "reject" /\ result.title = <<"YouTube Video ", ValidId>>

\* C5: every call carries a timeout, so an invocation in progress is never left
\* without a next step, whatever the collaborators do.
C5_InvocationNeverStuck == pc \in AwaitPcs \cup ExecPcs => ENABLED Next

\* C6: every throw of a strategy is caught by the orchestrator, which records one
\* reason for it and enters the next strategy; an error leaves the function only
\* as the aggregate error after strategy C.
C6_FailuresConfined ==
    /\ Len(errors) = Len(thrown)
    /\ \A i \in 1..Len(thrown) :
          /\ thrown[i][1] = Strategies[i]
          /\ errors[i] = <<NamesInSource[i], thrown[i][2]>>
          /\ i < Len(Strategies) => Len(started) > i
    /\ result.st = "error" => (result.kind = "aggregate" /\ Len(thrown) = Len(Strategies))
    /\ Len(thrown) < Len(Strategies) => result.st # "error"

\* A body that is not JSON (A), a rejected fetch (B) and an output-buffer
\* overflow of the subprocess (C) were each recorded.
C6_Witness ==
    /\ Len(thrown) = Len(Strategies)
    /\ thrown[1][2] = "Unexpected token < in JSON"
    /\ thrown[2][2] = "fetch failed"
    /\ thrown[3][2] = "spawnSync /bin/sh ENOBUFS"

\* C7: unrecognized input starts nothing: no strategy, no title lookup, no
\* request, no subprocess; the Raycast command ends on its no-URL / invalid-URL
\* message and the CLI exits with its invalid-input code.
C7_InvalidInputStartsNothing ==
    Unrecognized =>
        /\ reqLog = <<>> /\ started = <<>> /\ title.st = "none" /\ result.st = "none"
        /\ pc \in {"rc_start", "cli_start", "shown", "exited"}
        /\ pc = "shown" => markdown.st \in {"noUrlFound", "invalidUrl"}
        /\ pc = "exited" => (exitCode = <<2>> /\ stdout = <<>>)

\* The CLI has exited on an argument that is no URL and no identifier.
C7_Witness ==
    /\ frontend = "cli" /\ input = <<ShortText>> /\ pc = "exited"
    /\ Len(stderr) = 1

\* C8: the CLI exits with 2 exactly on a missing or unrecognized argument, with 1
\* exactly when all three strategies failed, with 0 exactly when a strategy
\* succeeded; on 0 stdout was written once, with the winner's segments; on 1
\* stdout was not written.
C8_CliExitCodes ==
    frontend = "cli" =>
        /\ pc # "exited" => (exitCode = NoExit /\ stdout = <<>>)
        /\ pc = "exited" =>
              /\ exitCode \in {<<0>>, <<1>>, <<2>>}
              /\ exitCode = <<2>> <=> Unrecognized
              /\ exitCode = <<1>> <=> Failed = StrategySet
              /\ exitCode = <<0>> <=> Succeeded # {}
              /\ exitCode = <<0>> =>
                    /\ Len(stdout) = 1
                    /\ IF stdout[1].json THEN stdout[1].segments = segments
                       ELSE stdout[1].text = formatSegments(segments, Timestamps)
              /\ exitCode = <<1>> => stdout = <<>>

\* The CLI, run with --json, has exited with 0 after strategy B succeeded.
C8_Witness ==
    /\ frontend = "cli" /\ exitCode = <<0>> /\ strat["B"] = "succeeded"
    /\ stdout[1].json

\* The payload a strategy received last gives no segment in that strategy.
ParsesToNothing ==
    /\ body.st = "received"
    /\ IF body.by = "C" THEN Len(YtDlpSegments(frontend, body.content)) = 0
       ELSE Len(parseTranscriptXml(body.content)) = 0

TextElementSegments(parts) ==
    LET held == SelectSeq(parts, LAMBDA n :
                    Pieces[n].kind \in {"text", "textBare"} /\ Pieces[n].text # <<>>)
    IN  [k \in 1..Len(held) |->
            [text |-> Pieces[held[k]].text, start |-> Pieces[held[k]].start,
             duration |-> Pieces[held[k]].duration]]

\* C25: every <text> element with non-blank inner text gives a segment, whether
\* or not it carries start and dur; a missing, empty or non-numeric start or dur
\* is 0; blank elements are skipped and the others keep their order.
C25_TextElementsAll ==
    (/\ parsed.st = "returned"
     /\ ~HasKind(xmlParts, "unclosedText") /\ ~HasKind(xmlParts, "unclosedP")
     /\ TextElementSegments(xmlParts) # <<>>)
        => parsed.val = TextElementSegments(xmlParts)

\* A payload whose only caption element is <text>No attributes</text> gave no
\* segment.
C25_BareTextLost ==
    /\ parsed.st = "returned" /\ parsed.val = <<>>
    /\ Len(xmlParts) = 1 /\ Pieces[xmlParts[1]].kind = "textBare"

\* An element with start="abc" and dur="" gave a segment with both fields 0.
C25_BadFieldsAreZero ==
    (/\ parsed.st = "returned"
     /\ Len(xmlParts) = 1 /\ Pieces[xmlParts[1]].text = <<"B","a","d"," ","f","i","e","l","d","s">>)
        => parsed.val = <<[text |-> Pieces[xmlParts[1]].text, start |-> 0, duration |-> 0]>>

(***************************************************************************)
(* Properties of Strategy B's two extractions (checked under Spec)         *)
(***************************************************************************)
\* The caption-track requests fetchTranscriptFromPage has issued.
PageCaptionFetches ==
    {k \in 1..Len(reqLog) :
        /\ reqLog[k].kind = "captionTrack"
        /\ \E j \in 1..(k - 1) : reqLog[j].kind = "page"}

\* The messages fetchCaptionTrack can throw.
CaptionErrors == {CaptionError(r) : r \in CaptionResponses} \ {Null}

\* What Strategy B threw.
PageThrown == {thrown[k][2] : k \in {j \in 1..Len(thrown) : thrown[j][1] = "B"}}

\* C24: Strategy B issues at most one caption-track request; the track of the
\* "captions": extraction is fetched only when the ytInitialPlayerResponse
\* extraction gave no tracks; and when Strategy B fails after it fetched a
\* track, what it threw is the error of that fetch or parse.
C24_PageFetchesOnce ==
    /\ Cardinality(PageCaptionFetches) <= 1
    /\ pc = "B_caption2" => page.primary # "tracks"
    /\ (strat["B"] = "failed" /\ PageCaptionFetches # {}) => PageThrown \subseteq CaptionErrors

\* The track of the first extraction failed and a second track is being fetched.
C24_SecondFetch == pc = "B_caption2" /\ Cardinality(PageCaptionFetches) = 2

\* Strategy B fetched a track and failed with one of its two final throws.
C24_FetchErrorLost ==
    /\ strat["B"] = "failed" /\ PageCaptionFetches # {}
    /\ PageThrown \cap CaptionErrors = {}

====
